---- MODULE Spec2Model ----
(***************************************************************************)
(* Work-stealing job scheduler (hlehtosalo/job_scheduler).                 *)
(*                                                                         *)
(* Threads are the scheduler's workers; worker 0 is the thread that calls  *)
(* Scheduler::run().  Every access to an atomic that another thread may    *)
(* touch is one step of the thread that makes it; thread-local work is     *)
(* folded into the step of the shared access that precedes it.  All memory *)
(* orders are modelled as sequentially consistent.  assert() is modelled   *)
(* as it is written: a failed assertion aborts the process.                *)
(***************************************************************************)
EXTENDS Integers, Sequences, FiniteSets, TLC

\* ------------------------------------------------------------------ bounds
MaxWorkers == 2        \* worker_amount ranges over 1..MaxWorkers
MaxSpawn == 2          \* JobSpawner::spawn calls the job functions make per run
MaxJobs == 5           \* jobs of one run, root jobs and spawned jobs together
DesiredChunks == 1     \* desired_allocation_chunk_amount given to the Scheduler
MaxPush == 3           \* pushes the owner makes in the single-deque harness
MaxThieves == 2        \* thieves in the single-deque harness
MaxPreds == 3          \* length of a predecessor list given to new_node
MaxRunNodes == 3       \* nodes of a graph that is built and then run

\* -------------------------------------------- program constants, scaled down
queue_capacity == 2           \* Config.h: 4096
allocation_chunk_size == 2    \* Config.h: 2048
UINT32_MAX == 2147483647      \* stands for 2^32 - 1, the value an unsigned
                              \* counter wraps to (TLC integers are 32 bit)

NULL == 0

Max(a, b) == IF a >= b THEN a ELSE b
Inc32(x) == IF x = UINT32_MAX THEN 0 ELSE x + 1
Dec32(x) == IF x = 0 THEN UINT32_MAX ELSE x - 1
Bump(x) == IF x < 2 THEN x + 1 ELSE x      \* history counters saturate at 2

\* ------------------------------------------------------------ JobGraph
\* A graph is [successors, initial_predecessor_amount, root_nodes]; node k is
\* the k-th node created.  predecessor_amount and unfinished_amount, the two
\* atomics of a node, are state variables.
EmptyGraph ==
  [successors |-> <<>>, initial_predecessor_amount |-> <<>>, root_nodes |-> <<>>]

NodeCount(g) == Len(g.successors)

RECURSIVE is_ancestor_of(_, _, _)
is_ancestor_of(g, node, descendant) ==
  \/ \E i \in 1..Len(g.successors[node]) : g.successors[node][i] = descendant
  \/ \E i \in 1..Len(g.successors[node]) :
       is_ancestor_of(g, g.successors[node][i], descendant)

add_successor(g, node, successor) ==
  [g EXCEPT !.successors[node] = Append(@, successor),
            !.initial_predecessor_amount[successor] = @ + 1]

new_root_node(g) ==
  [successors |-> Append(g.successors, <<>>),
   initial_predecessor_amount |-> Append(g.initial_predecessor_amount, 0),
   root_nodes |-> Append(g.root_nodes, NodeCount(g) + 1)]

\* Variant: a listed descendant of another listed node is redundant too.
RedundantEither(g, predecessors, predecessor) ==
  \E j \in 1..Len(predecessors) :
     /\ predecessors[j] # predecessor
     /\ \/ is_ancestor_of(g, predecessor, predecessors[j])
        \/ is_ancestor_of(g, predecessors[j], predecessor)

\* Variant: only a direct successor among the predecessors makes one redundant.
RedundantDirect(g, predecessors, predecessor) ==
  \E j \in 1..Len(predecessors) :
     /\ predecessors[j] # predecessor
     /\ \E i \in 1..Len(g.successors[predecessor]) :
          g.successors[predecessor][i] = predecessors[j]

Redundant(g, predecessors, predecessor) ==
  \E j \in 1..Len(predecessors) :
     /\ predecessors[j] # predecessor
     /\ is_ancestor_of(g, predecessor, predecessors[j])

RECURSIVE new_node_loop(_, _, _, _)
new_node_loop(g, node, predecessors, k) ==
  IF k > Len(predecessors) THEN g
  ELSE new_node_loop(
         IF Redundant(g, predecessors, predecessors[k]) THEN g
         ELSE add_successor(g, predecessors[k], node),
         node, predecessors, k + 1)

new_node(g, predecessors) ==
  new_node_loop(
    [successors |-> Append(g.successors, <<>>),
     initial_predecessor_amount |-> Append(g.initial_predecessor_amount, 0),
     root_nodes |-> g.root_nodes],
    NodeCount(g) + 1, predecessors, 1)

get_root_job(g, index) ==
  IF index >= Len(g.root_nodes) THEN NULL ELSE g.root_nodes[index + 1]

\* The graphs the runs are checked on.
SingleGraph == new_root_node(EmptyGraph)
ChainGraph == new_node(new_root_node(EmptyGraph), <<1>>)
TwoRootsGraph == new_node(new_root_node(new_root_node(EmptyGraph)), <<1, 2>>)
RedundantGraph == new_node(ChainGraph, <<1, 2>>)
LongChainGraph == new_node(RedundantGraph, <<3>>)
DiamondGraph ==
  new_node(new_node(new_node(new_root_node(EmptyGraph), <<1>>), <<1>>), <<2, 3>>)
Shapes == <<EmptyGraph, SingleGraph, ChainGraph, TwoRootsGraph, DiamondGraph>>
NumGraphs == 2
MaxNodes == 4

MaxThreads == Max(MaxWorkers, MaxThieves + 1)
Threads == 0..(MaxThreads - 1)
MaxChunks == Max(DesiredChunks, MaxWorkers)
Addrs == 1..(MaxChunks * allocation_chunk_size)
JobIds == 1..(MaxNodes + Max(MaxSpawn + 1, MaxPush))
Slots == 0..(queue_capacity - 1)

VARIABLES
  worker_amount,        \* Scheduler::worker_amount
  graphs,               \* the JobGraph objects the caller built
  spawn_limit,          \* spawn calls the job functions make per run, at most
  job_graph,            \* Scheduler::job_graph: 0 (nullptr) or an index of graphs
  predecessor_amount,   \* JobGraphNode::predecessor_amount, [graph][node]
  unfinished_amount,    \* JobGraphNode::unfinished_amount, [graph][node]
  state,                \* Scheduler::state
  stealer_amount,       \* Scheduler::stealer_amount
  active_amount,        \* Scheduler::active_amount
  sync_point,           \* Scheduler::sync_point: the threads blocked in the barrier
  chunk_next_index,     \* JobChunkAllocator::next_index
  chunk,                \* JobAllocator::chunk per worker: 0 (nullptr) or chunk index + 1
  next_index,           \* JobAllocator::next_index per worker
  top, bottom,          \* JobQueue::top, JobQueue::bottom per worker
  ring_buffer,          \* JobQueue::ring_buffer per worker
  absq,                 \* per deque: the sequential deque its history amounts to
  linOK,                \* every pop and steal so far returned what absq gives
  rec,                  \* the Job records of the chunks: [node, id]
  pc,                   \* where each thread is
  loc,                  \* each thread's local variables
  aborted,              \* an assertion failed or the process crashed
  nspawned,             \* spawn calls made in this run
  pushed, taken, started, finished,  \* history, per job of this run
  jobNode,              \* history: the node a spawned job was spawned into
  fired,                \* history: job_completed calls of a node that saw 1
  restored,             \* history: completed counter resets of a node
  entered,              \* history: run_worker calls of a worker in this run
  own_job_amount,       \* WorkerStatistics::own_job_amount per worker
  stolen_job_amount,    \* WorkerStatistics::stolen_job_amount per worker
  false_wait_amount     \* WorkerStatistics::false_wait_amount per worker

nodeVars == <<predecessor_amount, unfinished_amount>>
termVars == <<stealer_amount, active_amount>>
allocVars == <<chunk_next_index, chunk, next_index, rec>>
queueVars == <<top, bottom, ring_buffer, absq, linOK>>
jobHist == <<nspawned, pushed, taken, started, finished, jobNode, fired, restored>>
histVars == <<jobHist, entered>>
confVars == <<worker_amount, graphs, spawn_limit>>
statVars == <<own_job_amount, stolen_job_amount, false_wait_amount>>
vars == <<confVars, statVars, job_graph, nodeVars, state, termVars, sync_point, allocVars,
          queueVars, pc, loc, aborted, histVars>>

\* --------------------------------------------------------------- helpers
Workers == 0..(worker_amount - 1)
Graph == graphs[job_graph]
chunk_amount == Max(DesiredChunks, worker_amount)   \* Scheduler.cpp:32

\* Job pointers: NULL, 1..MaxNodes for &node.root_job of the installed graph,
\* MaxNodes + a for the Job record at address a of the chunk storage.
RootJob(n) == n
RecJob(a) == MaxNodes + a
IsRoot(job) == job \in 1..MaxNodes
NodeOf(job) == IF IsRoot(job) THEN job ELSE rec[job - MaxNodes].node   \* job->node
IdOf(job) == IF IsRoot(job) THEN job ELSE rec[job - MaxNodes].id

NoLocals ==
  [cur |-> NULL, seeding |-> FALSE, i |-> 0, job |-> NULL, lb |-> 0, lt |-> 0,
   q |-> 0, ret |-> "", si |-> 0, stolen |-> FALSE, predecessors |-> <<>>]

WorkLoopLocals == [NoLocals EXCEPT !.ret = "work_loop"]

InitialCounters(gs, field) ==
  [g \in 1..Len(gs) |-> [n \in 1..NodeCount(gs[g]) |->
      IF field = "p" THEN gs[g].initial_predecessor_amount[n] ELSE 1]]

ZeroHist == [j \in JobIds |-> 0]
ZeroStat == [t \in Threads |-> 0]

InitCommon ==
  /\ job_graph = 0
  /\ predecessor_amount = InitialCounters(graphs, "p")
  /\ unfinished_amount = InitialCounters(graphs, "u")
  /\ state = "Wait"
  /\ stealer_amount = 0            \* std::atomic value-initialises (C++20)
  /\ active_amount = 0
  /\ sync_point = {}
  /\ chunk_next_index = 0
  /\ chunk = [t \in Threads |-> 0]
  /\ next_index = [t \in Threads |-> 0]
  /\ top = [t \in Threads |-> 0]
  /\ bottom = [t \in Threads |-> 0]
  /\ ring_buffer = [t \in Threads |-> [s \in Slots |-> NULL]]
  /\ absq = [t \in Threads |-> <<>>]
  /\ linOK = TRUE
  /\ rec = [a \in Addrs |-> [node |-> 0, id |-> 0]]
  /\ loc = [t \in Threads |-> NoLocals]
  /\ aborted = FALSE
  /\ nspawned = 0
  /\ pushed = ZeroHist /\ taken = ZeroHist
  /\ started = ZeroHist /\ finished = ZeroHist
  /\ jobNode = ZeroHist
  /\ fired = ZeroHist /\ restored = ZeroHist
  /\ entered = ZeroStat
  /\ own_job_amount = ZeroStat
  /\ stolen_job_amount = ZeroStat
  /\ false_wait_amount = ZeroStat

\* The state after Scheduler's constructor: the threads of workers 1.. are
\* started, worker 0 is created, no graph is set.
Init ==
  /\ worker_amount \in 1..MaxWorkers
  /\ \E k \in 1..Len(Shapes) :
       graphs = [g \in 1..NumGraphs |-> IF g = 1 THEN Shapes[k] ELSE SingleGraph]
  /\ spawn_limit = MaxSpawn
  /\ InitCommon
  /\ pc = [t \in Threads |->
             IF t = 0 THEN "main"
             ELSE IF t < worker_amount THEN "thread_start" ELSE "unused"]

At(t, label) == ~aborted /\ t \in Workers /\ pc[t] = label
Goto(t, label) == pc' = [pc EXCEPT ![t] = label]
\* notify_all on an atomic: every thread blocked in wait() on it re-checks.
NotifyAll(t, label, parkedLabel, waitLabel) ==
  pc' = [u \in Threads |->
           IF u = t THEN label
           ELSE IF pc[u] = parkedLabel THEN waitLabel ELSE pc[u]]

\* --------------------------------------------------- the calling thread
\* Scheduler::set_job_graph
SetJobGraph(g) ==
  /\ At(0, "main")
  /\ job_graph # g
  /\ job_graph' = g
  /\ nspawned' = 0            \* the history is that of the installed graph's run
  /\ pushed' = ZeroHist /\ taken' = ZeroHist
  /\ started' = ZeroHist /\ finished' = ZeroHist
  /\ jobNode' = ZeroHist
  /\ fired' = ZeroHist /\ restored' = ZeroHist
  /\ entered' = ZeroStat
  /\ UNCHANGED <<confVars, statVars, nodeVars, state, termVars, sync_point, allocVars,
                 queueVars, pc, loc, aborted>>

\* Scheduler::reset_statistics
ResetStatistics ==
  /\ At(0, "main")
  /\ statVars # <<ZeroStat, ZeroStat, ZeroStat>>
  /\ own_job_amount' = ZeroStat
  /\ stolen_job_amount' = ZeroStat
  /\ false_wait_amount' = ZeroStat
  /\ UNCHANGED <<confVars, job_graph, nodeVars, state, termVars, sync_point,
                 allocVars, queueVars, pc, loc, aborted, histVars>>

\* Scheduler::run: assert(job_graph); state.store(Work).  The caller starts
\* a run with the statistics reset, which keeps the counters bounded.
RunStart ==
  /\ At(0, "main")
  /\ statVars = <<ZeroStat, ZeroStat, ZeroStat>>
  /\ IF job_graph = 0
       THEN /\ aborted' = TRUE
            /\ UNCHANGED <<state, pc, histVars>>
       ELSE /\ state' = "Work"
            /\ Goto(0, "run_notify")
            /\ nspawned' = 0
            /\ pushed' = ZeroHist /\ taken' = ZeroHist
            /\ started' = ZeroHist /\ finished' = ZeroHist
            /\ jobNode' = ZeroHist
            /\ fired' = ZeroHist /\ restored' = ZeroHist
            /\ entered' = ZeroStat
            /\ UNCHANGED aborted
  /\ UNCHANGED <<confVars, statVars, job_graph, nodeVars, termVars, sync_point, allocVars,
                 queueVars, loc>>

\* Scheduler::run: state.notify_all()
RunNotify ==
  /\ At(0, "run_notify")
  /\ NotifyAll(0, "run_stealer", "state_parked", "state_wait")
  /\ UNCHANGED <<confVars, statVars, job_graph, nodeVars, state, termVars, sync_point,
                 allocVars, queueVars, loc, aborted, histVars>>

\* Scheduler::run: stealer_amount.store(0)
RunResetStealer ==
  /\ At(0, "run_stealer")
  /\ stealer_amount' = 0
  /\ Goto(0, "run_active")
  /\ UNCHANGED <<confVars, statVars, job_graph, nodeVars, state, active_amount, sync_point,
                 allocVars, queueVars, loc, aborted, histVars>>

\* run() without the store to active_amount
RunKeepActive ==
  /\ At(0, "run_active")
  /\ Goto(0, "barrier_in")
  /\ entered' = [entered EXCEPT ![0] = Bump(@)]
  /\ UNCHANGED <<confVars, statVars, job_graph, nodeVars, state, termVars, sync_point,
                 allocVars, queueVars, loc, aborted, jobHist>>

\* Scheduler::run: active_amount.store(worker_amount); run_worker(0)
RunResetActive ==
  /\ At(0, "run_active")
  /\ active_amount' = worker_amount
  /\ Goto(0, "barrier_in")
  /\ entered' = [entered EXCEPT ![0] = Bump(@)]
  /\ UNCHANGED <<confVars, statVars, job_graph, nodeVars, state, stealer_amount, sync_point,
                 allocVars, queueVars, loc, aborted, jobHist>>

\* Scheduler::run: chunk_allocator->reset(), and run() returns.  The Job
\* records of the recycled chunks are put to one value: spawn_impl writes a
\* record before anything reads it.
RunChunkReset ==
  /\ At(0, "run_chunk_reset")
  /\ chunk_next_index' = 0
  /\ rec' = [a \in Addrs |-> [node |-> 0, id |-> 0]]
  /\ Goto(0, "main")
  /\ UNCHANGED <<confVars, statVars, job_graph, nodeVars, state, termVars, sync_point,
                 chunk, next_index, queueVars, loc, aborted, histVars>>

\* Scheduler::~Scheduler: state.store(Quit)
Destroy ==
  /\ At(0, "main")
  /\ state' = "Quit"
  /\ Goto(0, "dtor_notify")
  /\ UNCHANGED <<confVars, statVars, job_graph, nodeVars, termVars, sync_point, allocVars,
                 queueVars, loc, aborted, histVars>>

\* Scheduler::~Scheduler: state.notify_all()
DestroyNotify ==
  /\ At(0, "dtor_notify")
  /\ NotifyAll(0, "dtor_join", "state_parked", "state_wait")
  /\ UNCHANGED <<confVars, statVars, job_graph, nodeVars, state, termVars, sync_point,
                 allocVars, queueVars, loc, aborted, histVars>>

\* Scheduler::~Scheduler: thread.join() of every thread
DestroyJoin ==
  /\ At(0, "dtor_join")
  /\ \A t \in Workers \ {0} : pc[t] = "exited"
  /\ Goto(0, "destroyed")
  /\ UNCHANGED <<confVars, statVars, job_graph, nodeVars, state, termVars, sync_point,
                 allocVars, queueVars, loc, aborted, histVars>>

\* ---------------------------------------------------------- thread_loop
\* create_worker(worker_index)
CreateWorker(t) ==
  /\ At(t, "thread_start")
  /\ Goto(t, "state_wait")
  /\ UNCHANGED <<confVars, statVars, job_graph, nodeVars, state, termVars, sync_point,
                 allocVars, queueVars, loc, aborted, histVars>>

\* state.wait(State::Wait): returns once state is seen to differ from Wait
StateWait(t) ==
  /\ At(t, "state_wait")
  /\ Goto(t, IF state # "Wait" THEN "state_load" ELSE "state_parked")
  /\ UNCHANGED <<confVars, statVars, job_graph, nodeVars, state, termVars, sync_point,
                 allocVars, queueVars, loc, aborted, histVars>>

\* if (state.load() == State::Quit) break; run_worker(worker_index)
StateLoad(t) ==
  /\ At(t, "state_load")
  /\ Goto(t, IF state = "Quit" THEN "exited" ELSE "barrier_in")
  /\ entered' = IF state = "Quit" THEN entered
                                  ELSE [entered EXCEPT ![t] = Bump(@)]
  /\ UNCHANGED <<confVars, statVars, job_graph, nodeVars, state, termVars, sync_point,
                 allocVars, queueVars, loc, aborted, jobHist>>

\* ----------------------------------------------------------- run_worker
\* sync_point.arrive_and_wait(): arrive
BarrierArrive(t) ==
  /\ \/ At(t, "barrier_in")
     \/ At(t, "barrier_out")
  /\ IF Cardinality(sync_point) + 1 = worker_amount
       THEN /\ sync_point' = {}
            /\ Goto(t, IF pc[t] = "barrier_in" THEN "seed" ELSE "reset_bottom")
            /\ loc' = [loc EXCEPT ![t] =
                 IF pc[t] = "barrier_in"
                   THEN [NoLocals EXCEPT !.seeding = TRUE, !.i = t]
                   ELSE NoLocals]
       ELSE /\ sync_point' = sync_point \cup {t}
            /\ Goto(t, IF pc[t] = "barrier_in" THEN "barrier_in_wait"
                                                ELSE "barrier_out_wait")
            /\ UNCHANGED loc
  /\ UNCHANGED <<confVars, statVars, job_graph, nodeVars, state, termVars, allocVars,
                 queueVars, aborted, histVars>>

\* sync_point.arrive_and_wait(): the barrier's phase completed
BarrierPass(t) ==
  /\ \/ At(t, "barrier_in_wait")
     \/ At(t, "barrier_out_wait")
  /\ t \notin sync_point
  /\ Goto(t, IF pc[t] = "barrier_in_wait" THEN "seed" ELSE "reset_bottom")
  /\ loc' = [loc EXCEPT ![t] =
       IF pc[t] = "barrier_in_wait"
         THEN [NoLocals EXCEPT !.seeding = TRUE, !.i = t]
         ELSE NoLocals]
  /\ UNCHANGED <<confVars, statVars, job_graph, nodeVars, state, termVars, sync_point,
                 allocVars, queueVars, aborted, histVars>>

\* for (Size i = index; root_job = job_graph->get_root_job(i); i += worker_amount)
\*   root_job->run(...), else work_loop(worker)
Seed(t) ==
  /\ At(t, "seed")
  /\ LET job == get_root_job(Graph, loc[t].i) IN
       IF job = NULL
         THEN /\ Goto(t, "pop")
              /\ loc' = [loc EXCEPT ![t] = [WorkLoopLocals EXCEPT !.q = t]]
              /\ UNCHANGED started
         ELSE /\ Goto(t, "function")
              /\ loc' = [loc EXCEPT ![t].cur = RootJob(job)]
              /\ started' = [started EXCEPT ![IdOf(RootJob(job))] = Bump(@)]
  /\ UNCHANGED <<confVars, statVars, job_graph, nodeVars, state, termVars, sync_point,
                 allocVars, queueVars, aborted, nspawned, pushed, taken, finished,
                 jobNode, fired, restored, entered>>

\* worker.job_queue.reset(): bottom.store(0)
ResetBottom(t) ==
  /\ At(t, "reset_bottom")
  /\ bottom' = [bottom EXCEPT ![t] = 0]
  /\ Goto(t, "reset_top")
  /\ UNCHANGED <<confVars, statVars, job_graph, nodeVars, state, termVars, sync_point,
                 allocVars, top, ring_buffer, absq, linOK, loc, aborted, histVars>>

\* worker.job_queue.reset(): top.store(0); worker.job_allocator.reset();
\* run_worker returns to run() (worker 0) or to thread_loop.
\* What the reset leaves behind and nothing reads before writing it again is
\* put to one value, so that every run starts from the same state: the slots
\* of the emptied ring buffer (a slot is read only between top and bottom,
\* after a push wrote it) and JobAllocator::next_index (allocate() sets it
\* to 0 with the new chunk before using it).
ResetTop(t) ==
  /\ At(t, "reset_top")
  /\ top' = [top EXCEPT ![t] = 0]
  /\ absq' = [absq EXCEPT ![t] = <<>>]
  /\ chunk' = [chunk EXCEPT ![t] = 0]
  /\ ring_buffer' = [ring_buffer EXCEPT ![t] = [s \in Slots |-> NULL]]
  /\ next_index' = [next_index EXCEPT ![t] = 0]
  /\ Goto(t, IF t = 0 THEN "run_chunk_reset" ELSE "state_wait")
  /\ UNCHANGED <<confVars, statVars, job_graph, nodeVars, state, termVars, sync_point,
                 chunk_next_index, rec, bottom, linOK, loc, aborted, histVars>>

\* ------------------------------------------------- Job::run, JobSpawner
\* Job::run returned: back to the seeding loop or to the own-queue loop.
JobDonePc(t) == IF loc[t].seeding THEN "seed" ELSE "pop"
\* Variant: a job taken from another worker's deque is not counted.
AddJobOwnOnly(t) ==
  /\ own_job_amount' =
       IF loc[t].stolen THEN own_job_amount
                        ELSE [own_job_amount EXCEPT ![t] = @ + 1]
  /\ UNCHANGED stolen_job_amount

\* worker.statistics.add_own_job() or add_stolen_job() after Job::run
AddJob(t) ==
  /\ own_job_amount' =
       IF loc[t].stolen THEN own_job_amount
                        ELSE [own_job_amount EXCEPT ![t] = @ + 1]
  /\ stolen_job_amount' =
       IF loc[t].stolen THEN [stolen_job_amount EXCEPT ![t] = @ + 1]
                        ELSE stolen_job_amount
JobDoneLoc(t) ==
  IF loc[t].seeding
    THEN [NoLocals EXCEPT !.seeding = TRUE, !.i = loc[t].i + worker_amount]
    ELSE [WorkLoopLocals EXCEPT !.q = t]

\* Variant: the chunk is given up one slot too late.
ChunkExhaustedLate(index) == index = allocation_chunk_size + 1

\* JobAllocator::allocate: if (++next_index == allocation_chunk_size)
ChunkExhausted(index) == index = allocation_chunk_size

\* The job function calls spawn(function, params, is_sub_job): spawn_impl up
\* to the node's job_added(), JobAllocator::allocate included.
FnSpawn(t, is_sub_job) ==
  /\ At(t, "function")
  /\ nspawned < spawn_limit
  /\ NodeCount(Graph) + nspawned < MaxJobs
  /\ LET node == NodeOf(loc[t].cur)
         fresh == chunk[t] = 0
         index == chunk_next_index
         c == IF fresh THEN (IF index >= chunk_amount THEN 0 ELSE index + 1)
                       ELSE chunk[t]
         ni == IF fresh THEN 0 ELSE next_index[t]
         a == (c - 1) * allocation_chunk_size + ni + 1
         id == MaxNodes + nspawned + 1
     IN
       /\ chunk_next_index' = IF fresh THEN Inc32(index) ELSE index
       /\ IF c = 0
            THEN \* allocate() returned nullptr: assert(job)
                 /\ aborted' = TRUE
                 /\ UNCHANGED <<chunk, next_index, rec, pc, loc, histVars>>
            ELSE /\ chunk' = [chunk EXCEPT ![t] =
                                IF ChunkExhausted(ni + 1) THEN 0 ELSE c]
                 /\ next_index' = [next_index EXCEPT ![t] = ni + 1]
                 /\ rec' = [rec EXCEPT ![a] =
                              [node |-> IF is_sub_job THEN node ELSE 0, id |-> id]]
                 /\ jobNode' = [jobNode EXCEPT ![id] = IF is_sub_job THEN node ELSE 0]
                 /\ nspawned' = nspawned + 1
                 /\ loc' = [loc EXCEPT ![t].job = RecJob(a), ![t].q = t,
                                       ![t].ret = "spawn"]
                 /\ Goto(t, IF is_sub_job THEN "job_added" ELSE "push")
                 /\ UNCHANGED <<aborted, pushed, taken, started, finished, fired, restored, entered>>
  /\ UNCHANGED <<confVars, statVars, job_graph, nodeVars, state, termVars, sync_point,
                 queueVars>>

\* spawn_impl without node->job_added()
JobAddedNoCount(t) ==
  /\ At(t, "job_added")
  /\ Goto(t, "push")
  /\ UNCHANGED <<confVars, statVars, job_graph, nodeVars, state, termVars, sync_point,
                 allocVars, queueVars, loc, aborted, histVars>>

\* spawn_impl: node->job_added().  With a null node this is a fetch_add
\* through a null pointer, undefined behaviour: the process crashes, or the
\* access lands outside every node and spawn_impl goes on.
JobAdded(t) ==
  /\ At(t, "job_added")
  /\ LET node == NodeOf(loc[t].job) IN
       IF node = 0
         THEN \/ /\ aborted' = TRUE
                 /\ UNCHANGED <<unfinished_amount, pc>>
              \/ /\ Goto(t, "push")
                 /\ UNCHANGED <<unfinished_amount, aborted>>
         ELSE /\ unfinished_amount' =
                   [unfinished_amount EXCEPT ![job_graph][node] = Inc32(@)]
              /\ Goto(t, "push")
              /\ UNCHANGED aborted
  /\ UNCHANGED <<confVars, statVars, job_graph, predecessor_amount, state, termVars,
                 sync_point, allocVars, queueVars, loc, histVars>>

\* Job::run that calls job_completed whether or not the job has a node
FnReturnAlways(t) ==
  /\ At(t, "function")
  /\ finished' = [finished EXCEPT ![IdOf(loc[t].cur)] = Bump(@)]
  /\ Goto(t, "job_completed")
  /\ UNCHANGED <<confVars, statVars, job_graph, nodeVars, state, termVars, sync_point,
                 allocVars, queueVars, loc, aborted, nspawned, pushed, taken,
                 started, jobNode, fired, restored, entered>>

\* The job function returns; Job::run goes on to node->job_completed(queue)
\* if the job has a node.
FnReturn(t) ==
  /\ At(t, "function")
  /\ finished' = [finished EXCEPT ![IdOf(loc[t].cur)] = Bump(@)]
  /\ IF NodeOf(loc[t].cur) # 0
       THEN /\ Goto(t, "job_completed")
            /\ UNCHANGED <<loc, own_job_amount, stolen_job_amount>>
       ELSE /\ Goto(t, JobDonePc(t))
            /\ loc' = [loc EXCEPT ![t] = JobDoneLoc(t)]
            /\ AddJob(t)
  /\ UNCHANGED <<confVars, false_wait_amount, job_graph, nodeVars, state, termVars, sync_point,
                 allocVars, queueVars, aborted, nspawned, pushed, taken, started,
                 jobNode, fired, restored, entered>>

\* every decrement of unfinished_amount taken for the last one
LastDecrementAny(old) == old >= 1
\* every decrement of predecessor_amount taken for the one that reaches 0
BecomesReadyEarly(old) == old >= 1

\* ------------------------------------------ JobGraphNode::job_completed
\* Variant: the decrement from 2 is taken for the final one as well.
LastDecrementTwo(old) == old = 1 \/ old = 2

LastDecrement(old) == old = 1       \* if (old_unfinished_amount > 1) return;

\* unfinished_amount.fetch_sub(1)
JobCompleted(t) ==
  /\ At(t, "job_completed")
  /\ LET node == NodeOf(loc[t].cur)
         old == unfinished_amount[job_graph][node]
     IN
       /\ unfinished_amount' =
            [unfinished_amount EXCEPT ![job_graph][node] = Dec32(old)]
       /\ aborted' = (old = 0)      \* assert(old_unfinished_amount > 0)
       /\ IF old = 0
            THEN UNCHANGED <<pc, loc, own_job_amount, stolen_job_amount, fired>>
            ELSE IF LastDecrement(old)
              THEN /\ Goto(t, "fire")
                   /\ loc' = [loc EXCEPT ![t].si = 1]
                   /\ fired' = [fired EXCEPT ![node] = Bump(@)]
                   /\ UNCHANGED <<own_job_amount, stolen_job_amount>>
              ELSE /\ Goto(t, JobDonePc(t))
                   /\ loc' = [loc EXCEPT ![t] = JobDoneLoc(t)]
                   /\ AddJob(t)
                   /\ UNCHANGED fired
  /\ UNCHANGED <<confVars, false_wait_amount, job_graph, predecessor_amount, state, termVars,
                 sync_point, allocVars, queueVars, nspawned, pushed, taken, started,
                 finished, jobNode, restored, entered>>

BecomesReady(old) == old = 1        \* if (old_predecessor_amount == 1)

\* for (successor : successors) successor->predecessor_amount.fetch_sub(1),
\* and the call of queue.push(&successor->root_job)
Fire(t) ==
  /\ At(t, "fire")
  /\ LET node == NodeOf(loc[t].cur)
         succs == Graph.successors[node]
     IN
       IF loc[t].si > Len(succs)
         THEN /\ Goto(t, "reset_unfinished")
              /\ loc' = [loc EXCEPT ![t].si = 0]
              /\ UNCHANGED <<predecessor_amount, aborted>>
         ELSE LET s == succs[loc[t].si]
                  old == predecessor_amount[job_graph][s]
              IN
                /\ predecessor_amount' =
                     [predecessor_amount EXCEPT ![job_graph][s] = Dec32(old)]
                /\ aborted' = (old = 0)     \* assert(old_predecessor_amount > 0)
                /\ IF old = 0
                     THEN UNCHANGED <<pc, loc>>
                     ELSE IF BecomesReady(old)
                       THEN /\ Goto(t, "push")
                            /\ loc' = [loc EXCEPT ![t].job = RootJob(s),
                                                  ![t].q = t, ![t].ret = "fire"]
                       ELSE /\ loc' = [loc EXCEPT ![t].si = @ + 1]
                            /\ UNCHANGED pc
  /\ UNCHANGED <<confVars, statVars, job_graph, unfinished_amount, state, termVars,
                 sync_point, allocVars, queueVars, histVars>>

\* Variant: job_completed without the store of 1 to unfinished_amount
ResetUnfinishedSkip(t) ==
  /\ At(t, "reset_unfinished")
  /\ Goto(t, "reset_predecessor")
  /\ UNCHANGED <<confVars, statVars, job_graph, nodeVars, state, termVars,
                 sync_point, allocVars, queueVars, loc, aborted, histVars>>

\* unfinished_amount.store(1)
ResetUnfinished(t) ==
  /\ At(t, "reset_unfinished")
  /\ unfinished_amount' =
       [unfinished_amount EXCEPT ![job_graph][NodeOf(loc[t].cur)] = 1]
  /\ Goto(t, "reset_predecessor")
  /\ UNCHANGED <<confVars, statVars, job_graph, predecessor_amount, state, termVars,
                 sync_point, allocVars, queueVars, loc, aborted, histVars>>

\* job_completed without the store to predecessor_amount
ResetPredecessorSkip(t) ==
  /\ At(t, "reset_predecessor")
  /\ Goto(t, JobDonePc(t))
  /\ loc' = [loc EXCEPT ![t] = JobDoneLoc(t)]
  /\ UNCHANGED <<confVars, statVars, job_graph, nodeVars, state, termVars,
                 sync_point, allocVars, queueVars, aborted, histVars>>

\* predecessor_amount.store(initial_predecessor_amount)
ResetPredecessor(t) ==
  /\ At(t, "reset_predecessor")
  /\ LET node == NodeOf(loc[t].cur) IN
       predecessor_amount' = [predecessor_amount EXCEPT ![job_graph][node] =
                                Graph.initial_predecessor_amount[node]]
  /\ restored' = [restored EXCEPT ![NodeOf(loc[t].cur)] = Bump(@)]
  /\ Goto(t, JobDonePc(t))
  /\ loc' = [loc EXCEPT ![t] = JobDoneLoc(t)]
  /\ AddJob(t)
  /\ UNCHANGED <<confVars, false_wait_amount, job_graph, unfinished_amount, state, termVars,
                 sync_point, allocVars, queueVars, aborted, nspawned, pushed, taken,
                 started, finished, jobNode, fired, entered>>

\* ------------------------------------------------------------- JobQueue
\* The deque a call works on is loc.q; loc.ret names the caller ("spawn",
\* "fire", "work_loop", or "harness" in the single-deque specification).
HistId(t, job) == IF loc[t].ret = "harness" THEN job ELSE IdOf(job)
Front(s) == IF s = <<>> THEN s ELSE SubSeq(s, 1, Len(s) - 1)
Rest(s) == IF s = <<>> THEN s ELSE Tail(s)
\* Variant: the deque is taken for full one element too late.
FullLate(local_bottom, local_top) == local_bottom - local_top = queue_capacity + 1

Full(local_bottom, local_top) == local_bottom - local_top = queue_capacity

\* Variant: the callers of push ignore a false return and go on.
PushDrop(t) ==
  /\ At(t, "push")
  /\ LET q == loc[t].q IN
       IF Full(bottom[q], top[q])
         THEN /\ linOK' = (linOK /\ Len(absq[q]) = queue_capacity)
              /\ Goto(t, CASE loc[t].ret = "spawn" -> "function"
                           [] loc[t].ret = "fire" -> "fire"
                           [] OTHER -> "q_idle")
              /\ loc' = [loc EXCEPT ![t] =
                   CASE loc[t].ret = "spawn" ->
                          [loc[t] EXCEPT !.job = NULL, !.q = 0, !.ret = ""]
                     [] loc[t].ret = "fire" ->
                          [loc[t] EXCEPT !.job = NULL, !.q = 0, !.ret = "",
                                         !.si = @ + 1]
                     [] OTHER -> NoLocals]
         ELSE /\ Goto(t, "push_slot")
              /\ loc' = [loc EXCEPT ![t].lb = bottom[q]]
              /\ UNCHANGED linOK
  /\ UNCHANGED <<confVars, statVars, job_graph, nodeVars, state, termVars, sync_point,
                 allocVars, top, bottom, ring_buffer, absq, aborted, histVars>>

\* push: local_bottom = bottom.load(); local_top = top.load();
\* if (local_bottom - local_top == queue_capacity) return false;
\* the callers in spawn_impl and job_completed assert(pushed).
Push(t) ==
  /\ At(t, "push")
  /\ LET q == loc[t].q IN
       IF Full(bottom[q], top[q])
         THEN /\ linOK' = (linOK /\ Len(absq[q]) = queue_capacity)
              /\ IF loc[t].ret = "harness"
                   THEN /\ Goto(t, "q_idle")
                        /\ loc' = [loc EXCEPT ![t] = NoLocals]
                        /\ UNCHANGED aborted
                   ELSE /\ aborted' = TRUE
                        /\ UNCHANGED <<pc, loc>>
         ELSE /\ Goto(t, "push_slot")
              /\ loc' = [loc EXCEPT ![t].lb = bottom[q]]
              /\ UNCHANGED <<aborted, linOK>>
  /\ UNCHANGED <<confVars, statVars, job_graph, nodeVars, state, termVars, sync_point,
                 allocVars, top, bottom, ring_buffer, absq, histVars>>

\* push: ring_buffer[local_bottom % queue_capacity].store(job)
PushSlot(t) ==
  /\ At(t, "push_slot")
  /\ ring_buffer' = [ring_buffer EXCEPT
                       ![loc[t].q][loc[t].lb % queue_capacity] = loc[t].job]
  /\ Goto(t, "push_bottom")
  /\ UNCHANGED <<confVars, statVars, job_graph, nodeVars, state, termVars, sync_point,
                 allocVars, top, bottom, absq, linOK, loc, aborted, histVars>>

\* push: bottom.store(local_bottom + 1); return true
PushBottom(t) ==
  /\ At(t, "push_bottom")
  /\ bottom' = [bottom EXCEPT ![loc[t].q] = loc[t].lb + 1]
  /\ absq' = [absq EXCEPT ![loc[t].q] = Append(@, loc[t].job)]
  /\ pushed' = [pushed EXCEPT ![HistId(t, loc[t].job)] = Bump(@)]
  /\ Goto(t, CASE loc[t].ret = "spawn" -> "function"
               [] loc[t].ret = "fire" -> "fire"
               [] OTHER -> "q_idle")
  /\ loc' = [loc EXCEPT ![t] =
       CASE loc[t].ret = "spawn" ->
              [loc[t] EXCEPT !.job = NULL, !.lb = 0, !.q = 0, !.ret = ""]
         [] loc[t].ret = "fire" ->
              [loc[t] EXCEPT !.job = NULL, !.lb = 0, !.q = 0, !.ret = "",
                             !.si = @ + 1]
         [] OTHER -> NoLocals]
  /\ UNCHANGED <<confVars, statVars, job_graph, nodeVars, state, termVars, sync_point,
                 allocVars, top, ring_buffer, linOK, aborted, nspawned, taken,
                 started, finished, jobNode, fired, restored, entered>>

\* pop() returned job to its caller: work_loop runs a job it got and starts
\* stealing on nullptr.
PopDone(t, job) ==
  /\ taken' = IF job # NULL THEN [taken EXCEPT ![HistId(t, job)] = Bump(@)]
                           ELSE taken
  /\ IF loc[t].ret = "harness"
       THEN /\ Goto(t, "q_idle")
            /\ loc' = [loc EXCEPT ![t] = NoLocals]
            /\ UNCHANGED started
       ELSE IF job # NULL
         THEN /\ Goto(t, "function")
              /\ loc' = [loc EXCEPT ![t] = [WorkLoopLocals EXCEPT !.cur = job]]
              /\ started' = [started EXCEPT ![IdOf(job)] = Bump(@)]
         ELSE /\ Goto(t, "steal_inc")
              /\ loc' = [loc EXCEPT ![t] = WorkLoopLocals]
              /\ UNCHANGED started

\* steal() returned job to its caller
StealDone(t, job) ==
  /\ taken' = IF job # NULL THEN [taken EXCEPT ![HistId(t, job)] = Bump(@)]
                           ELSE taken
  /\ IF loc[t].ret = "harness"
       THEN /\ Goto(t, "q_idle")
            /\ loc' = [loc EXCEPT ![t] = NoLocals]
       ELSE IF job # NULL
         THEN /\ Goto(t, "steal_publish")
              /\ loc' = [loc EXCEPT ![t] = [WorkLoopLocals EXCEPT !.cur = job,
                                                                !.stolen = TRUE]]
         ELSE /\ Goto(t, "steal_check")
              /\ loc' = [loc EXCEPT ![t] = WorkLoopLocals]

\* pop: local_bottom = bottom.load() - 1; bottom.store(local_bottom)
Pop(t) ==
  /\ At(t, "pop")
  /\ bottom' = [bottom EXCEPT ![loc[t].q] = @ - 1]
  /\ loc' = [loc EXCEPT ![t].lb = bottom[loc[t].q] - 1]
  /\ Goto(t, "pop_top")
  /\ UNCHANGED <<confVars, statVars, job_graph, nodeVars, state, termVars, sync_point,
                 allocVars, top, ring_buffer, absq, linOK, aborted, histVars>>

\* the last element taken for an uncontested one
PopUncontestedLast(local_bottom, local_top) == local_bottom >= local_top
PopEmpty(local_bottom, local_top) == local_bottom < local_top
PopUncontested(local_bottom, local_top) == local_bottom > local_top

\* pop: local_top = top.load(); the empty case, the uncontested case (the
\* job is returned), or on to the compare-exchange for the last element
PopTop(t) ==
  /\ At(t, "pop_top")
  /\ LET q == loc[t].q
         lb == loc[t].lb
         lt == top[q]
     IN
       IF PopEmpty(lb, lt)
         THEN /\ Goto(t, "pop_restore")
              /\ loc' = [loc EXCEPT ![t].job = NULL]
              /\ linOK' = (linOK /\ absq[q] = <<>>)
              /\ UNCHANGED <<absq, taken, started>>
         ELSE LET job == ring_buffer[q][lb % queue_capacity] IN
           IF PopUncontested(lb, lt)
             THEN /\ linOK' = (linOK /\ absq[q] # <<>>
                                     /\ absq[q][Len(absq[q])] = job)
                  /\ absq' = [absq EXCEPT ![q] = Front(@)]
                  /\ PopDone(t, job)
             ELSE /\ Goto(t, "pop_cas")
                  /\ loc' = [loc EXCEPT ![t].job = job, ![t].lt = lt]
                  /\ UNCHANGED <<absq, linOK, taken, started>>
  /\ UNCHANGED <<confVars, statVars, job_graph, nodeVars, state, termVars, sync_point,
                 allocVars, top, bottom, ring_buffer, aborted, nspawned, pushed,
                 finished, jobNode, fired, restored, entered>>

\* pop with a plain store in place of the compare-exchange
PopCasBlind(t) ==
  /\ At(t, "pop_cas")
  /\ LET q == loc[t].q IN
       /\ top' = [top EXCEPT ![q] = loc[t].lt + 1]
       /\ linOK' = (linOK /\ absq[q] = <<loc[t].job>>)
       /\ absq' = [absq EXCEPT ![q] = Front(@)]
       /\ UNCHANGED loc
  /\ Goto(t, "pop_restore")
  /\ UNCHANGED <<confVars, statVars, job_graph, nodeVars, state, termVars, sync_point,
                 allocVars, bottom, ring_buffer, aborted, histVars>>

\* pop: top.compare_exchange_strong(local_top, local_top + 1)
PopCas(t) ==
  /\ At(t, "pop_cas")
  /\ LET q == loc[t].q IN
       IF top[q] = loc[t].lt
         THEN /\ top' = [top EXCEPT ![q] = loc[t].lt + 1]
              /\ linOK' = (linOK /\ absq[q] = <<loc[t].job>>)
              /\ absq' = [absq EXCEPT ![q] = Front(@)]
              /\ UNCHANGED loc
         ELSE /\ loc' = [loc EXCEPT ![t].job = NULL]
              /\ linOK' = (linOK /\ absq[q] = <<>>)
              /\ UNCHANGED <<top, absq>>
  /\ Goto(t, "pop_restore")
  /\ UNCHANGED <<confVars, statVars, job_graph, nodeVars, state, termVars, sync_point,
                 allocVars, bottom, ring_buffer, aborted, histVars>>

\* pop that returns without storing local_bottom + 1 to bottom
PopRestoreSkip(t) ==
  /\ At(t, "pop_restore")
  /\ PopDone(t, loc[t].job)
  /\ UNCHANGED <<confVars, statVars, job_graph, nodeVars, state, termVars, sync_point,
                 allocVars, queueVars, aborted, nspawned,
                 pushed, finished, jobNode, fired, restored, entered>>

\* pop: bottom.store(local_bottom + 1); return job (or nullptr)
PopRestore(t) ==
  /\ At(t, "pop_restore")
  /\ bottom' = [bottom EXCEPT ![loc[t].q] = loc[t].lb + 1]
  /\ PopDone(t, loc[t].job)
  /\ UNCHANGED <<confVars, statVars, job_graph, nodeVars, state, termVars, sync_point,
                 allocVars, top, ring_buffer, absq, linOK, aborted, nspawned,
                 pushed, finished, jobNode, fired, restored, entered>>

\* Variant: the distribution starts at index, not at 1 + index.
StealTargetsSelf(t) ==
  {x % worker_amount : x \in t..(Max(worker_amount - 1, 1) + t)}

\* steal_distribution(1 + index, max(worker_amount - 1, 1) + index), then
\* % worker_amount: the generator's draw is any value of the range.
StealTargets(t) ==
  {x % worker_amount : x \in (1 + t)..(Max(worker_amount - 1, 1) + t)}

\* work_loop picks target_index; steal: local_top = top.load()
Steal(t) ==
  /\ At(t, "steal")
  /\ \E target \in (IF loc[t].ret = "harness" THEN {0} ELSE StealTargets(t)) :
       loc' = [loc EXCEPT ![t].q = target, ![t].lt = top[target]]
  /\ Goto(t, "steal_bottom")
  /\ UNCHANGED <<confVars, statVars, job_graph, nodeVars, state, termVars, sync_point,
                 allocVars, queueVars, aborted, histVars>>

\* steal that goes on when top equals bottom
StealEmptyStrict(local_top, local_bottom) == local_top > local_bottom
StealEmpty(local_top, local_bottom) == local_top >= local_bottom

\* steal: local_bottom = bottom.load(); if (local_top >= local_bottom) return nullptr
StealBottom(t) ==
  /\ At(t, "steal_bottom")
  /\ IF StealEmpty(loc[t].lt, bottom[loc[t].q])
       THEN StealDone(t, NULL)
       ELSE /\ Goto(t, "steal_slot")
            /\ UNCHANGED <<loc, taken>>
  /\ UNCHANGED <<confVars, statVars, job_graph, nodeVars, state, termVars, sync_point,
                 allocVars, queueVars, aborted, nspawned, pushed, started,
                 finished, jobNode, fired, restored, entered>>

\* steal: job = ring_buffer[local_top % queue_capacity].load()
StealSlot(t) ==
  /\ At(t, "steal_slot")
  /\ loc' = [loc EXCEPT ![t].job =
               ring_buffer[loc[t].q][loc[t].lt % queue_capacity]]
  /\ Goto(t, "steal_cas")
  /\ UNCHANGED <<confVars, statVars, job_graph, nodeVars, state, termVars, sync_point,
                 allocVars, queueVars, aborted, histVars>>

\* steal with a plain store in place of the compare-exchange
StealCasBlind(t) ==
  /\ At(t, "steal_cas")
  /\ LET q == loc[t].q IN
       /\ top' = [top EXCEPT ![q] = loc[t].lt + 1]
       /\ linOK' = (linOK /\ absq[q] # <<>> /\ Head(absq[q]) = loc[t].job)
       /\ absq' = [absq EXCEPT ![q] = Rest(@)]
       /\ StealDone(t, loc[t].job)
  /\ UNCHANGED <<confVars, statVars, job_graph, nodeVars, state, termVars, sync_point,
                 allocVars, bottom, ring_buffer, aborted, nspawned, pushed,
                 started, finished, jobNode, fired, restored, entered>>

\* steal: top.compare_exchange_strong(local_top, local_top + 1)
StealCas(t) ==
  /\ At(t, "steal_cas")
  /\ LET q == loc[t].q IN
       IF top[q] = loc[t].lt
         THEN /\ top' = [top EXCEPT ![q] = loc[t].lt + 1]
              /\ linOK' = (linOK /\ absq[q] # <<>> /\ Head(absq[q]) = loc[t].job)
              /\ absq' = [absq EXCEPT ![q] = Rest(@)]
              /\ StealDone(t, loc[t].job)
         ELSE /\ StealDone(t, NULL)
              /\ UNCHANGED <<top, absq, linOK>>
  /\ UNCHANGED <<confVars, statVars, job_graph, nodeVars, state, termVars, sync_point,
                 allocVars, bottom, ring_buffer, aborted, nspawned, pushed,
                 started, finished, jobNode, fired, restored, entered>>

\* ------------------------------------------------------------ work_loop
\* stealer_amount.fetch_add(1)
StealInc(t) ==
  /\ At(t, "steal_inc")
  /\ stealer_amount' = Inc32(stealer_amount)
  /\ Goto(t, "steal")
  /\ UNCHANGED <<confVars, statVars, job_graph, nodeVars, state, active_amount, sync_point,
                 allocVars, queueVars, loc, aborted, histVars>>

NotifyOnSteal(old) == old = worker_amount

\* a thief that runs the stolen job without the fetch_sub on stealer_amount
StealPublishKeep(t) ==
  /\ At(t, "steal_publish")
  /\ Goto(t, "function")
  /\ started' = [started EXCEPT ![IdOf(loc[t].cur)] = Bump(@)]
  /\ UNCHANGED <<confVars, statVars, job_graph, nodeVars, state, termVars, sync_point,
                 allocVars, queueVars, loc, aborted, nspawned, pushed, taken,
                 finished, jobNode, fired, restored, entered>>

\* if (stealer_amount.fetch_sub(1) == worker_amount), else stolen_job->run(...)
StealPublish(t) ==
  /\ At(t, "steal_publish")
  /\ stealer_amount' = Dec32(stealer_amount)
  /\ IF NotifyOnSteal(stealer_amount)
       THEN /\ Goto(t, "steal_notify")
            /\ UNCHANGED started
       ELSE /\ Goto(t, "function")
            /\ started' = [started EXCEPT ![IdOf(loc[t].cur)] = Bump(@)]
  /\ UNCHANGED <<confVars, statVars, job_graph, nodeVars, state, active_amount, sync_point,
                 allocVars, queueVars, loc, aborted, nspawned, pushed, taken,
                 finished, jobNode, fired, restored, entered>>

\* stealer_amount.notify_all(); stolen_job->run(...)
StealNotify(t) ==
  /\ At(t, "steal_notify")
  /\ NotifyAll(t, "function", "stealer_parked", "stealer_wait")
  /\ started' = [started EXCEPT ![IdOf(loc[t].cur)] = Bump(@)]
  /\ UNCHANGED <<confVars, statVars, job_graph, nodeVars, state, termVars, sync_point,
                 allocVars, queueVars, loc, aborted, nspawned, pushed, taken,
                 finished, jobNode, fired, restored, entered>>

\* Variant: one stealing worker is taken for all of them.
EveryoneStealingEarly(amount) == amount >= 1

EveryoneStealing(amount) == amount >= worker_amount

\* if (stealer_amount.load() >= worker_amount), else yield and steal again
StealCheck(t) ==
  /\ At(t, "steal_check")
  /\ Goto(t, IF EveryoneStealing(stealer_amount) THEN "active_dec" ELSE "steal")
  /\ UNCHANGED <<confVars, statVars, job_graph, nodeVars, state, termVars, sync_point,
                 allocVars, queueVars, loc, aborted, histVars>>

\* every worker that stops taken for the last one
LastActiveAny(old) == old >= 1
LastActive(old) == old = 1

\* if (active_amount.fetch_sub(1) == 1)
ActiveDec(t) ==
  /\ At(t, "active_dec")
  /\ active_amount' = Dec32(active_amount)
  /\ Goto(t, IF LastActive(active_amount) THEN "sentinel" ELSE "stealer_wait")
  /\ UNCHANGED <<confVars, statVars, job_graph, nodeVars, state, stealer_amount, sync_point,
                 allocVars, queueVars, loc, aborted, histVars>>

\* stealer_amount.store(worker_amount + 1)
Sentinel(t) ==
  /\ At(t, "sentinel")
  /\ stealer_amount' = worker_amount + 1
  /\ Goto(t, "sentinel_notify")
  /\ UNCHANGED <<confVars, statVars, job_graph, nodeVars, state, active_amount, sync_point,
                 allocVars, queueVars, loc, aborted, histVars>>

\* the sentinel stored without notify_all()
SentinelNoNotify(t) ==
  /\ At(t, "sentinel_notify")
  /\ Goto(t, "stealer_wait")
  /\ UNCHANGED <<confVars, statVars, job_graph, nodeVars, state, termVars, sync_point,
                 allocVars, queueVars, loc, aborted, histVars>>

\* stealer_amount.notify_all() after the sentinel is stored
SentinelNotify(t) ==
  /\ At(t, "sentinel_notify")
  /\ NotifyAll(t, "stealer_wait", "stealer_parked", "stealer_wait")
  /\ UNCHANGED <<confVars, statVars, job_graph, nodeVars, state, termVars, sync_point,
                 allocVars, queueVars, loc, aborted, histVars>>

\* stealer_amount.wait(worker_amount): returns once the value is seen to
\* differ from worker_amount, blocks otherwise
StealerWait(t) ==
  /\ At(t, "stealer_wait")
  /\ Goto(t, IF stealer_amount # worker_amount THEN "stealer_load"
                                               ELSE "stealer_parked")
  /\ UNCHANGED <<confVars, statVars, job_graph, nodeVars, state, termVars, sync_point,
                 allocVars, queueVars, loc, aborted, histVars>>

\* a blocked wait may be unblocked spuriously; it then re-checks the value
SpuriousWake(t) ==
  /\ At(t, "stealer_parked")
  /\ Goto(t, "stealer_wait")
  /\ UNCHANGED <<confVars, statVars, job_graph, nodeVars, state, termVars, sync_point,
                 allocVars, queueVars, loc, aborted, histVars>>

\* Variant: the sentinel is not recognised.
RunOverNever(amount) == amount > worker_amount + 1

RunOver(amount) == amount > worker_amount

\* if (stealer_amount.load() > worker_amount) return; work_loop returned,
\* and every worker but worker 0 goes on to the exit barrier; otherwise
\* worker.statistics.add_false_wait()
StealerLoad(t) ==
  /\ At(t, "stealer_load")
  /\ IF RunOver(stealer_amount)
       THEN /\ Goto(t, IF t = 0 THEN "store_wait" ELSE "barrier_out")
            /\ loc' = [loc EXCEPT ![t] = NoLocals]
            /\ UNCHANGED false_wait_amount
       ELSE /\ Goto(t, "active_inc")
            /\ false_wait_amount' = [false_wait_amount EXCEPT ![t] = @ + 1]
            /\ UNCHANGED loc
  /\ UNCHANGED <<confVars, own_job_amount, stolen_job_amount, job_graph, nodeVars, state, termVars, sync_point,
                 allocVars, queueVars, aborted, histVars>>

\* a worker that goes back to stealing without the fetch_add on active_amount
ActiveIncSkip(t) ==
  /\ At(t, "active_inc")
  /\ Goto(t, "steal")
  /\ UNCHANGED <<confVars, statVars, job_graph, nodeVars, state, termVars, sync_point,
                 allocVars, queueVars, loc, aborted, histVars>>

\* add_false_wait(); active_amount.fetch_add(1); yield and steal again
ActiveInc(t) ==
  /\ At(t, "active_inc")
  /\ active_amount' = Inc32(active_amount)
  /\ Goto(t, "steal")
  /\ UNCHANGED <<confVars, statVars, job_graph, nodeVars, state, stealer_amount, sync_point,
                 allocVars, queueVars, loc, aborted, histVars>>

\* run_worker of worker 0 without the store of Wait
StoreWaitSkip ==
  /\ At(0, "store_wait")
  /\ Goto(0, "barrier_out")
  /\ UNCHANGED <<confVars, statVars, job_graph, nodeVars, state, termVars, sync_point,
                 allocVars, queueVars, loc, aborted, histVars>>

\* run_worker, worker 0: state.store(State::Wait)
StoreWait ==
  /\ At(0, "store_wait")
  /\ state' = "Wait"
  /\ Goto(0, "barrier_out")
  /\ UNCHANGED <<confVars, statVars, job_graph, nodeVars, termVars, sync_point, allocVars,
                 queueVars, loc, aborted, histVars>>

\* ------------------------------------------------- building a job graph
\* The caller builds graphs[1] node by node: JobGraph::new_node without
\* predecessors, or with a predecessor list drawn from the nodes the graph
\* has (assert(predecessor->owner == this)); a node may be listed twice.
GraphInit ==
  /\ worker_amount = 1
  /\ graphs = [g \in 1..NumGraphs |-> EmptyGraph]
  /\ spawn_limit = MaxSpawn
  /\ InitCommon
  /\ pc = [t \in Threads |-> IF t = 0 THEN "g_build" ELSE "unused"]

PredLists(n) == UNION {[1..k -> 1..n] : k \in 1..MaxPreds}

\* The constructor leaves predecessor_amount 0 and unfinished_amount 1, and
\* each add_successor stores the incremented initial_predecessor_amount.
NodeBuilt(g, predecessors) ==
  /\ graphs' = [graphs EXCEPT ![1] = g]
  /\ predecessor_amount' =
       [predecessor_amount EXCEPT
          ![1] = Append(@, g.initial_predecessor_amount[NodeCount(g)])]
  /\ unfinished_amount' = [unfinished_amount EXCEPT ![1] = Append(@, 1)]
  /\ loc' = [loc EXCEPT ![0].predecessors = predecessors]
  /\ UNCHANGED <<worker_amount, spawn_limit, statVars, job_graph, state, termVars,
                 sync_point, allocVars, queueVars, pc, aborted, histVars>>

GNewRootNode ==
  /\ At(0, "g_build")
  /\ NodeCount(graphs[1]) < MaxNodes
  /\ NodeBuilt(new_root_node(graphs[1]), <<>>)

GNewNode(predecessors) ==
  /\ At(0, "g_build")
  /\ NodeCount(graphs[1]) < MaxNodes
  /\ NodeBuilt(new_node(graphs[1], predecessors), predecessors)

GraphNext ==
  \/ GNewRootNode
  \/ \E predecessors \in PredLists(NodeCount(graphs[1])) : GNewNode(predecessors)

GraphSpec == GraphInit /\ [][GraphNext]_vars

\* -------------------------------------------- one deque, owner and thieves
\* The deque of thread 0 alone: thread 0 calls push and pop in any order,
\* threads 1..MaxThieves call steal, all concurrently.  Job k is the pointer
\* given to the k-th push call.
QueueInit ==
  /\ worker_amount = MaxThieves + 1
  /\ graphs = [g \in 1..NumGraphs |-> EmptyGraph]
  /\ spawn_limit = MaxSpawn
  /\ InitCommon
  /\ pc = [t \in Threads |-> IF t <= MaxThieves THEN "q_idle" ELSE "unused"]

QPush ==
  /\ At(0, "q_idle")
  /\ nspawned < MaxPush
  /\ nspawned' = nspawned + 1
  /\ loc' = [loc EXCEPT ![0] = [NoLocals EXCEPT !.job = nspawned + 1,
                                                !.ret = "harness"]]
  /\ Goto(0, "push")
  /\ UNCHANGED <<confVars, statVars, job_graph, nodeVars, state, termVars, sync_point,
                 allocVars, queueVars, aborted, pushed, taken, started, finished,
                 jobNode, fired, restored, entered>>

QPop ==
  /\ At(0, "q_idle")
  /\ loc' = [loc EXCEPT ![0] = [NoLocals EXCEPT !.ret = "harness"]]
  /\ Goto(0, "pop")
  /\ UNCHANGED <<confVars, statVars, job_graph, nodeVars, state, termVars, sync_point,
                 allocVars, queueVars, aborted, histVars>>

QSteal(t) ==
  /\ t # 0
  /\ At(t, "q_idle")
  /\ loc' = [loc EXCEPT ![t] = [NoLocals EXCEPT !.ret = "harness"]]
  /\ Goto(t, "steal")
  /\ UNCHANGED <<confVars, statVars, job_graph, nodeVars, state, termVars, sync_point,
                 allocVars, queueVars, aborted, histVars>>

QueueStep(t) ==
  \/ Push(t) \/ PushSlot(t) \/ PushBottom(t)
  \/ Pop(t) \/ PopTop(t) \/ PopCas(t) \/ PopRestore(t)
  \/ Steal(t) \/ StealBottom(t) \/ StealSlot(t) \/ StealCas(t)

QueueNext ==
  \/ QPush
  \/ QPop
  \/ \E t \in Threads : QSteal(t)
  \/ \E t \in Threads : QueueStep(t)

QueueSpec == QueueInit /\ [][QueueNext]_vars

\* ------------------------------------------------------- specification
WorkerStep(t) ==
  \/ BarrierArrive(t) \/ BarrierPass(t) \/ Seed(t)
  \/ \E is_sub_job \in BOOLEAN : FnSpawn(t, is_sub_job)
  \/ JobAdded(t) \/ FnReturn(t)
  \/ JobCompleted(t) \/ Fire(t) \/ ResetUnfinished(t) \/ ResetPredecessor(t)
  \/ Push(t) \/ PushSlot(t) \/ PushBottom(t)
  \/ Pop(t) \/ PopTop(t) \/ PopCas(t) \/ PopRestore(t)
  \/ Steal(t) \/ StealBottom(t) \/ StealSlot(t) \/ StealCas(t)
  \/ StealInc(t) \/ StealPublish(t) \/ StealNotify(t) \/ StealCheck(t)
  \/ ActiveDec(t) \/ Sentinel(t) \/ SentinelNotify(t)
  \/ StealerWait(t) \/ StealerLoad(t) \/ ActiveInc(t)
  \/ ResetBottom(t) \/ ResetTop(t)

ThreadStep(t) == CreateWorker(t) \/ StateWait(t) \/ StateLoad(t)

RunStep ==
  \/ RunNotify \/ RunResetStealer \/ RunResetActive \/ StoreWait \/ RunChunkReset

CallerStep ==
  \/ \E g \in 1..NumGraphs : SetJobGraph(g)
  \/ RunStart
  \/ ResetStatistics
  \/ Destroy \/ DestroyNotify \/ DestroyJoin

Next ==
  \/ CallerStep
  \/ RunStep
  \/ \E t \in Threads : ThreadStep(t)
  \/ \E t \in Threads : WorkerStep(t)
  \/ \E t \in Threads : SpuriousWake(t)

Spec == Init /\ [][Next]_vars

\* Fair scheduling of every thread: a thread that can take a step of its
\* code eventually takes one.  What the caller does next when run() has
\* returned, and spurious wake-ups, are not forced; a destructor that has
\* stored Quit goes on to notify and to join.
Fairness ==
  /\ WF_vars(RunStep)
  /\ WF_vars(DestroyNotify \/ DestroyJoin)
  /\ \A t \in Threads : WF_vars(ThreadStep(t))
  /\ \A t \in Threads : WF_vars(WorkerStep(t))

\* The graphs of the specification with fairness: the empty graph, one
\* root, and two roots joined by a common successor (the second graph of
\* every configuration is SingleGraph).
LiveShapes == <<EmptyGraph, SingleGraph, TwoRootsGraph>>

FairInit ==
  /\ Init
  /\ \E k \in 1..Len(LiveShapes) : graphs[1] = LiveShapes[k]

FairSpec == FairInit /\ [][Next]_vars /\ Fairness

\* Runs that exhaust the capacities: job functions that make one spawn call
\* more, which is more than one chunk or one deque holds.  One worker runs
\* the chain graph (a successor is fired onto a full deque, the only chunk
\* runs out), two workers run the single-node graph (a spawn onto a full
\* deque).
CapInit ==
  /\ worker_amount \in 1..MaxWorkers
  /\ graphs = [g \in 1..NumGraphs |->
                IF g = 1 /\ worker_amount = 1 THEN ChainGraph ELSE SingleGraph]
  /\ spawn_limit = MaxSpawn + 1
  /\ InitCommon
  /\ pc = [t \in Threads |->
             IF t = 0 THEN "main"
             ELSE IF t < worker_amount THEN "thread_start" ELSE "unused"]

CapSpec == CapInit /\ [][Next]_vars

\* Runs of a chain of four nodes and of the empty graph, with job functions
\* that make at most one spawn call, under the fairness of FairSpec.
ChainInit ==
  /\ worker_amount \in 1..MaxWorkers
  /\ graphs = [g \in 1..NumGraphs |->
                IF g = 1 THEN LongChainGraph ELSE EmptyGraph]
  /\ spawn_limit = 1
  /\ InitCommon
  /\ pc = [t \in Threads |->
             IF t = 0 THEN "main"
             ELSE IF t < worker_amount THEN "thread_start" ELSE "unused"]

ChainSpec == ChainInit /\ [][Next]_vars /\ Fairness

\* The caller constructs the Scheduler (two workers) and a JobGraph, builds
\* the graph by new_node calls, then sets it and runs it, as main() does;
\* the job functions make at most one spawn call per run.
BuildInit ==
  /\ worker_amount = MaxWorkers
  /\ graphs = [g \in 1..NumGraphs |-> EmptyGraph]
  /\ spawn_limit = 1
  /\ InitCommon
  /\ pc = [t \in Threads |->
             IF t = 0 THEN "g_build"
             ELSE IF t < worker_amount THEN "thread_start" ELSE "unused"]

BNewRootNode ==
  /\ NodeCount(graphs[1]) < MaxRunNodes
  /\ GNewRootNode

BNewNode(predecessors) ==
  /\ NodeCount(graphs[1]) < MaxRunNodes
  /\ GNewNode(predecessors)

\* the graph is complete: the caller goes on to set_job_graph and run
BuildDone ==
  /\ At(0, "g_build")
  /\ Goto(0, "main")
  /\ loc' = [loc EXCEPT ![0] = NoLocals]
  /\ UNCHANGED <<confVars, statVars, job_graph, nodeVars, state, termVars, sync_point,
                 allocVars, queueVars, aborted, histVars>>

BuildNext ==
  \/ BNewRootNode
  \/ \E predecessors \in PredLists(NodeCount(graphs[1])) : BNewNode(predecessors)
  \/ BuildDone
  \/ Next

BuildSpec == BuildInit /\ [][BuildNext]_vars

\* ---------------------------------------------------------- properties
NodeIds == IF job_graph = 0 THEN {} ELSE 1..NodeCount(Graph)
SpawnedIds == (MaxNodes + 1)..(MaxNodes + nspawned)
SubJobIds == {id \in SpawnedIds : jobNode[id] # 0}
Preds(n) ==
  {p \in NodeIds : \E i \in 1..Len(Graph.successors[p]) : Graph.successors[p][i] = n}
InPush(t) == pc[t] \in {"push", "push_slot", "push_bottom"}
\* run() has returned from a run of the installed graph
RunReturned == ~aborted /\ pc[0] = "main" /\ job_graph # 0 /\ started # ZeroHist
\* the root job of n and every sub-job spawned into n so far have returned
NodeCompleted(n) ==
  /\ finished[n] >= 1
  /\ \A id \in SubJobIds : jobNode[id] = n => finished[id] >= 1

\* C1: in every run the root job of every node of the installed graph is
\* executed exactly once.  A node without predecessors is never pushed and is
\* run in the seeding loop, root node number i by worker i mod worker_amount;
\* every other node's root job is pushed at most once, by a worker that saw
\* predecessor_amount go from 1 to 0, is returned by at most one pop or steal
\* and is started only after that; when run() has returned every root job
\* has been started and finished once.
C1_RootJobsOnce ==
  /\ \A n \in NodeIds :
       /\ started[n] <= 1 /\ finished[n] <= started[n]
       /\ IF Graph.initial_predecessor_amount[n] = 0
            THEN pushed[n] = 0 /\ taken[n] = 0
            ELSE started[n] <= taken[n] /\ taken[n] <= pushed[n] /\ pushed[n] <= 1
       /\ RunReturned => started[n] = 1 /\ finished[n] = 1
  /\ \A t \in Workers :
       /\ (loc[t].cur # NULL /\ loc[t].seeding) =>
            /\ loc[t].i % worker_amount = t
            /\ loc[t].cur = get_root_job(Graph, loc[t].i)
       /\ (loc[t].cur # NULL /\ IsRoot(loc[t].cur) /\ ~aborted
             /\ Graph.initial_predecessor_amount[loc[t].cur] = 0) => loc[t].seeding
       /\ (InPush(t) /\ loc[t].ret = "fire" /\ ~aborted) =>
            /\ predecessor_amount[job_graph][loc[t].job] = 0
            /\ pushed[loc[t].job] = 0

\* C1 witness: run() has returned from a two-worker run of the diamond graph,
\* its four root jobs run once each, the last one through a deque.
C1_Witness ==
  /\ RunReturned /\ worker_amount = 2 /\ NodeCount(Graph) = 4
  /\ \A n \in NodeIds : started[n] = 1 /\ finished[n] = 1
  /\ pushed[4] = 1 /\ taken[4] = 1

\* C2: every job spawned with is_sub_job = true during a run is pushed once,
\* returned by at most one pop or steal, started at most once and only after
\* a pop or steal returned it; when run() has returned it has been returned,
\* started and finished exactly once.  A worker pushes to and pops from its
\* own deque only, so a pop returns a job to the worker that spawned it.
C2_SubJobsOnce ==
  /\ \A id \in SubJobIds :
       /\ pushed[id] <= 1 /\ taken[id] <= pushed[id]
       /\ started[id] <= taken[id] /\ finished[id] <= started[id]
       /\ RunReturned => taken[id] = 1 /\ started[id] = 1 /\ finished[id] = 1
  /\ \A t \in Workers :
       (InPush(t) \/ pc[t] \in {"pop_top", "pop_cas", "pop_restore"})
          => loc[t].q = t

\* C2 witness: run() has returned from a two-worker run in which two
\* sub-jobs were spawned and both ran.
C2_Witness ==
  /\ RunReturned /\ worker_amount = 2 /\ nspawned = 2
  /\ \A id \in SpawnedIds : id \in SubJobIds /\ started[id] = 1 /\ finished[id] = 1

\* C3: the root job of a node is not started before every predecessor node
\* (every node that has it as a successor) has completed: the predecessor's
\* root job and every sub-job spawned into it have returned.
C3_StartAfterPredecessors ==
  \A n \in NodeIds :
    started[n] >= 1 => \A p \in Preds(n) : NodeCompleted(p)

\* C3 witness: a worker is inside the root job of a node one of whose
\* predecessors had a sub-job.
C3_Witness ==
  \E t \in Workers :
    /\ pc[t] = "function" /\ IsRoot(loc[t].cur) /\ ~aborted
    /\ \E p \in Preds(loc[t].cur) : \E id \in SubJobIds : jobNode[id] = p

\* t is in job_completed past the last decrement of unfinished_amount
Firing(t) ==
  \/ pc[t] \in {"fire", "reset_unfinished", "reset_predecessor"}
  \/ InPush(t) /\ loc[t].ret = "fire"

\* C4: a worker is in the part of job_completed that decrements successors'
\* predecessor_amount and pushes their root jobs only when the root job of
\* its node and every sub-job spawned into the node have returned; a
\* successor whose counter was decremented or whose root job was pushed has
\* a completed predecessor, and a pushed one has all predecessors completed.
C4_FireAfterCompletion ==
  ~aborted =>
    /\ \A t \in Workers : Firing(t) => NodeCompleted(NodeOf(loc[t].cur))
    /\ \A n \in NodeIds :
         /\ (predecessor_amount[job_graph][n] # Graph.initial_predecessor_amount[n]
               /\ pc[0] # "main")
              => \E p \in Preds(n) : NodeCompleted(p)
         /\ pushed[n] >= 1 => \A p \in Preds(n) : NodeCompleted(p)

\* C4 witness: the worker that fires a node's successors got there from a
\* sub-job of the node, not from its root job.
C4_Witness ==
  \E t \in Workers :
    /\ pc[t] = "fire" /\ ~aborted /\ ~IsRoot(loc[t].cur)
    /\ Len(Graph.successors[NodeOf(loc[t].cur)]) > 0

DequeHoldsJob(u) == absq[u] # <<>> \/ top[u] < bottom[u]
HoldsJob(u) == loc[u].cur # NULL
Returned(t) == pc[t] \in {"store_wait", "barrier_out", "barrier_out_wait"}

\* C5: while a deque holds a job, or a worker runs a job or holds a job it
\* has stolen, no worker is about to store the sentinel, stealer_amount is
\* not the sentinel, and no worker has returned from work_loop.
C5_TerminationSafe ==
  (\E u \in Workers : DequeHoldsJob(u) \/ HoldsJob(u)) =>
     /\ stealer_amount # worker_amount + 1
     /\ \A t \in Workers : pc[t] # "sentinel" /\ pc[t] # "sentinel_notify"
                           /\ ~Returned(t)

\* C5 witness: the sentinel is stored while another worker, back from a
\* false wait, has not yet counted itself active again.
C5_Witness ==
  /\ ~aborted /\ stealer_amount = worker_amount + 1
  /\ \E t \in Workers : pc[t] = "active_inc"

\* C6: under fair scheduling of the threads every call of run() returns,
\* unless an assertion fails (a full deque, no chunk left) or the process
\* crashes.
C6_RunReturns ==
  (pc[0] = "run_notify") ~> (pc[0] = "main" \/ aborted)

\* C6 witness: the sentinel is stored while a worker is blocked in
\* stealer_amount.wait().
C6_Witness ==
  /\ ~aborted /\ stealer_amount = worker_amount + 1
  /\ \E t \in Workers : pc[t] = "stealer_parked"

\* bottom, with the decrement of a pop in progress undone
QBottom == IF pc[0] \in {"pop_top", "pop_cas", "pop_restore"}
             THEN loc[0].lb + 1 ELSE bottom[0]
InRing(k) ==
  \E i \in top[0]..(QBottom - 1) : ring_buffer[0][i % queue_capacity] = k
QQuiet == \A t \in Workers : pc[t] = "q_idle"

\* C7: for one deque, every pushed job is returned by at most one pop or
\* steal and only if it was pushed, and none is lost: a pushed job not yet
\* returned is between top and bottom or in the hands of the pop that won it;
\* a pop whose compare-exchange for the last element is going to fail lost
\* it to a steal that returned it.
C7_AtMostOnceNoneLost ==
  /\ \A k \in 1..MaxPush :
       /\ pushed[k] <= 1 /\ taken[k] <= pushed[k]
       /\ (pushed[k] = 1 /\ taken[k] = 0) =>
            \/ InRing(k)
            \/ pc[0] = "pop_restore" /\ loc[0].job = k
       /\ (pushed[k] = 1 /\ taken[k] = 1) => ~InRing(k)
  /\ (pc[0] = "pop_cas" /\ top[0] # loc[0].lt) => taken[loc[0].job] = 1
  /\ QQuiet =>
       Cardinality({k \in 1..MaxPush : pushed[k] = 1 /\ taken[k] = 0})
         = bottom[0] - top[0]

\* C7 witness: the owner's pop is at the compare-exchange for the last
\* element, which a thief has already taken.
C7_Witness ==
  /\ pc[0] = "pop_cas" /\ top[0] # loc[0].lt
  /\ taken[loc[0].job] = 1

\* C8: every pop and steal returned what the sequential deque gives at its
\* linearization point (a pop the newest element, a steal the oldest, a null
\* pop on an empty deque or when the last element was taken by a thief
\* before, a failed push on a full deque), the sequential deque never holds
\* more than queue_capacity elements, and when no call is in progress it is
\* what lies between top and bottom.
C8_RefinesSequentialDeque ==
  /\ linOK
  /\ Len(absq[0]) <= queue_capacity
  /\ QQuiet =>
       absq[0] = [i \in 1..(bottom[0] - top[0]) |->
                    ring_buffer[0][(top[0] + i - 1) % queue_capacity]]

\* C8 witness: no call is in progress, the first job was stolen and the
\* third was pushed into the slot it left.
C8_Witness ==
  /\ QQuiet /\ top[0] = 1 /\ bottom[0] = 3
  /\ absq[0] = <<2, 3>> /\ taken[1] = 1

\* C9: when run() has returned (the caller is outside run()), every node of
\* every graph has unfinished_amount 1 and predecessor_amount equal to its
\* initial_predecessor_amount.
C9_CountersRestored ==
  pc[0] = "main" =>
    /\ unfinished_amount = InitialCounters(graphs, "u")
    /\ predecessor_amount = InitialCounters(graphs, "p")

\* C9 witness: run() has returned from a two-worker run of the diamond graph
\* with a sub-job.
C9_Witness ==
  /\ RunReturned /\ worker_amount = 2 /\ NodeCount(Graph) = 4
  /\ \E id \in SubJobIds : finished[id] = 1

AtEntryBarrier(t) == pc[t] \in {"barrier_in", "barrier_in_wait"}
OwnReset(t) == top[t] = 0 /\ bottom[t] = 0 /\ chunk[t] = 0
SharedReset ==
  /\ stealer_amount = 0 /\ active_amount = worker_amount
  /\ chunk_next_index = 0
  /\ unfinished_amount = InitialCounters(graphs, "u")
  /\ predecessor_amount = InitialCounters(graphs, "p")

\* C10: when the entry barrier opens (every worker is at it) stealer_amount
\* is 0, active_amount is worker_amount, every deque has top = bottom = 0,
\* no job allocator has a chunk, the chunk allocator's next_index is 0 and
\* all node counters are initial; from worker 0's resets until the barrier
\* opens nothing changes the shared values, and a worker's own deque and
\* allocator stay reset from its arrival until it has passed.
C10_ResetAtEntryBarrier ==
  /\ (\A t \in Workers : AtEntryBarrier(t)) =>
        SharedReset /\ \A t \in Workers : OwnReset(t)
  /\ \A t \in Workers : AtEntryBarrier(t) => OwnReset(t)
  /\ (pc[0] = "barrier_in" \/ (pc[0] = "barrier_in_wait" /\ 0 \in sync_point))
        => SharedReset

\* C10 witness: worker 0 is at the entry barrier of a run on the second
\* graph while worker 1 has not yet finished resetting its deque after the
\* run before.
C10_Witness ==
  /\ ~aborted /\ worker_amount = 2 /\ job_graph = 2
  /\ pc[0] = "barrier_in" /\ pc[1] = "reset_top" /\ top[1] > 0

\* C11 as stated: when run() has returned every deque has top = bottom.
\* It fails for a worker that is between the two stores of JobQueue::reset.
C11_Original ==
  pc[0] = "main" => \A t \in Workers : top[t] = bottom[t]

\* C11: when run() has returned no deque holds a job (nothing lies between
\* top and bottom), worker 0's deque has top = bottom = 0, and every other
\* deque has top = bottom except while its worker is between the stores of
\* bottom and top in JobQueue::reset, where bottom is 0 and top is not yet.
C11_DequesEmptyAfterRun ==
  pc[0] = "main" =>
    /\ top[0] = 0 /\ bottom[0] = 0
    /\ \A t \in Workers :
         /\ absq[t] = <<>> /\ top[t] >= bottom[t]
         /\ pc[t] # "reset_top" => top[t] = bottom[t]
         /\ pc[t] = "reset_top" => bottom[t] = 0

\* C11 witness: run() has returned and worker 1 has not yet reset its deque,
\* whose counters stand where the run left them.
C11_Witness ==
  /\ RunReturned /\ worker_amount = 2
  /\ pc[1] = "reset_bottom" /\ top[1] > 0 /\ bottom[1] = top[1]

\* the spawned jobs that have no node
FreeIds == {id \in SpawnedIds : jobNode[id] = 0}
InJobCompleted(t) == pc[t] = "job_completed" \/ Firing(t)

\* C12: a job spawned with is_sub_job = false has no node: the worker that
\* ran it never enters job_completed for it, no node's unfinished_amount
\* counts it (the counter is at most 1 plus the sub-jobs spawned into the
\* node), and it is pushed once, returned by at most one pop or steal,
\* started and finished at most once, and exactly once when run() has
\* returned.
C12_FreeJobsOnceOutsideGraph ==
  ~aborted =>
    /\ \A t \in Workers : InJobCompleted(t) => NodeOf(loc[t].cur) # 0
    /\ \A n \in NodeIds :
         unfinished_amount[job_graph][n]
           <= 1 + Cardinality({id \in SubJobIds : jobNode[id] = n})
    /\ \A id \in FreeIds :
         /\ pushed[id] <= 1 /\ taken[id] <= pushed[id]
         /\ started[id] <= taken[id] /\ finished[id] <= started[id]
         /\ RunReturned => taken[id] = 1 /\ started[id] = 1 /\ finished[id] = 1

\* C12 witness: the first node of a graph fires its successors while a job
\* that its root job spawned with is_sub_job = false is still in a deque.
C12_Witness ==
  /\ ~aborted /\ job_graph # 0
  /\ \E t \in Workers : pc[t] = "fire" /\ NodeOf(loc[t].cur) = 1
  /\ Len(Graph.successors[1]) > 0
  /\ \A n \in NodeIds : n # 1 => started[n] = 0
  /\ \E id \in FreeIds : pushed[id] = 1 /\ taken[id] = 0

RECURSIVE SumTo(_, _)
SumTo(f, n) == IF n < 0 THEN 0 ELSE f[n] + SumTo(f, n - 1)
\* the jobs executed, as WorkerStatistics::write adds them up, over all workers
Executed ==
  SumTo(own_job_amount, worker_amount - 1)
    + SumTo(stolen_job_amount, worker_amount - 1)
NoStatistics == statVars = <<ZeroStat, ZeroStat, ZeroStat>>
\* worker 0 has left work_loop, or run() has returned and the statistics
\* have not been reset since
RunEnded ==
  /\ ~aborted /\ job_graph # 0
  /\ Returned(0) \/ (RunReturned /\ ~NoStatistics)

\* C13 as stated: at the end of a run the executed jobs of all workers add
\* up to the number of nodes of the graph plus the number of jobs spawned
\* with is_sub_job = true during the run.
C13_Original ==
  RunEnded => Executed = NodeCount(Graph) + Cardinality(SubJobIds)

\* C13: at the end of a run that started with zeroed statistics, the
\* executed jobs (own plus stolen) of all workers add up to the number of
\* nodes of the graph, one root job each, plus the number of jobs spawned
\* during the run, whether with is_sub_job = true or false.
C13_ExecutedEqualsSpawned ==
  RunEnded => Executed = NodeCount(Graph) + nspawned

\* C13 witness: run() has returned from a two-worker run in which a sub-job
\* and a job outside the graph were spawned and a job was stolen.
C13_Witness ==
  /\ RunReturned /\ worker_amount = 2
  /\ SubJobIds # {} /\ FreeIds # {}
  /\ \E t \in Workers : stolen_job_amount[t] > 0
  /\ Executed = NodeCount(Graph) + 2

\* Reachability along successor edges, computed on sets of nodes.
Succ(g, n) == {g.successors[n][i] : i \in 1..Len(g.successors[n])}
RECURSIVE Closure(_, _, _)
Closure(g, S, k) ==
  IF k = 0 THEN S ELSE Closure(g, S \cup UNION {Succ(g, d) : d \in S}, k - 1)
Reachable(g, a, b) == b \in Closure(g, Succ(g, a), NodeCount(g))
Count(seq, x) == Cardinality({i \in 1..Len(seq) : seq[i] = x})
\* the predecessors new_node is to keep: no other listed node is reachable
Kept(g, P, p) ==
  /\ \E i \in 1..Len(P) : P[i] = p
  /\ ~\E j \in 1..Len(P) : P[j] # p /\ Reachable(g, p, P[j])
RECURSIVE EdgesTo(_, _, _)
EdgesTo(g, node, p) ==
  IF p = 0 THEN 0 ELSE Count(g.successors[p], node) + EdgesTo(g, node, p - 1)
\* the graph before its last node was created
Prev(g) ==
  LET node == NodeCount(g)
      Others(seq) == SelectSeq(seq, LAMBDA x : x # node)
  IN [successors |-> [p \in 1..(node - 1) |-> Others(g.successors[p])],
      initial_predecessor_amount |->
        SubSeq(g.initial_predecessor_amount, 1, node - 1),
      root_nodes |-> Others(g.root_nodes)]
BuiltWithPredecessors == pc[0] = "g_build" /\ loc[0].predecessors # <<>>

\* C14: after new_node with predecessor list P, the new node is in the
\* successor list of p once per occurrence of p in P if p is in P and no
\* other element of P is reachable from p, and not at all otherwise;
\* initial_predecessor_amount and predecessor_amount of the new node are the
\* number of edges added; and if P is <<A, B>> or <<B, A>> with B reachable
\* from A, the graph is the one that predecessor list <<B>> produces.
C14_NewNodeWiring ==
  BuiltWithPredecessors =>
    LET g == graphs[1]
        node == NodeCount(g)
        P == loc[0].predecessors
    IN /\ \A p \in 1..node :
            Count(g.successors[p], node) =
              IF Kept(g, P, p) THEN Count(P, p) ELSE 0
       /\ g.initial_predecessor_amount[node] = EdgesTo(g, node, node)
       /\ predecessor_amount[1][node] = EdgesTo(g, node, node)
       /\ unfinished_amount[1][node] = 1
       /\ \A p \in 1..(node - 1) :
            /\ predecessor_amount[1][p] = g.initial_predecessor_amount[p]
            /\ g.initial_predecessor_amount[p] = Prev(g).initial_predecessor_amount[p]
       /\ \A i, j \in 1..Len(P) :
            Reachable(Prev(g), P[i], P[j]) /\ Len(P) = 2 =>
              g = new_node(Prev(g), <<P[j]>>)

\* C14 witness: a node was created with predecessors <<A, B>> or <<B, A>>,
\* B reachable from A only through a third node, and is a successor of B
\* alone.
C14_Witness ==
  /\ BuiltWithPredecessors
  /\ LET g == graphs[1]
         node == NodeCount(g)
         P == loc[0].predecessors
     IN \E i, j \in 1..Len(P) :
          /\ Reachable(g, P[i], P[j])
          /\ P[j] \notin Succ(g, P[i])
          /\ Count(g.successors[P[i]], node) = 0
          /\ Count(g.successors[P[j]], node) = 1
          /\ predecessor_amount[1][node] = 1

\* a worker is in spawn_impl with is_sub_job = true and a null node
NullNodeSpawn(t) == pc[t] = "job_added" /\ NodeOf(loc[t].job) = 0

\* C15: spawn with is_sub_job = true through a spawner whose node is null
\* does not crash, changes no node counter, leaves the new job's node null
\* and goes on to push the job onto the worker's own deque.
C15_NullNodeSpawnPushes ==
  [][\A t \in Workers :
       (NullNodeSpawn(t) /\ JobAdded(t)) =>
         /\ ~aborted'
         /\ UNCHANGED nodeVars
         /\ pc'[t] = "push" /\ loc'[t].q = t /\ NodeOf(loc'[t].job) = 0]_vars

\* push is about to return false to spawn_impl or job_completed
PushFails(t) ==
  /\ pc[t] = "push" /\ loc[t].ret \in {"spawn", "fire"}
  /\ Full(bottom[loc[t].q], top[loc[t].q])
\* the next JobAllocator::allocate of the worker returns nullptr
AllocateFails(t) ==
  pc[t] = "function" /\ chunk[t] = 0 /\ chunk_next_index >= chunk_amount
InSpawn(t) ==
  /\ pc[t] \in {"job_added", "push", "push_slot", "push_bottom"}
  /\ loc[t].ret = "spawn"
\* every job spawned, and every successor whose last predecessor has fired,
\* is in a deque, was taken from one, or is being pushed right now
NoJobDropped ==
  /\ \A id \in SpawnedIds :
       \/ pushed[id] >= 1
       \/ \E t \in Workers : InSpawn(t) /\ IdOf(loc[t].job) = id
  /\ \A n \in NodeIds :
       (Graph.initial_predecessor_amount[n] > 0
          /\ predecessor_amount[job_graph][n] = 0) =>
         \/ pushed[n] >= 1
         \/ \E t \in Workers :
              InPush(t) /\ loc[t].ret = "fire" /\ loc[t].job = RootJob(n)

\* C16: a push that returns false in spawn_impl or in job_completed, and an
\* allocate that returns nullptr in spawn_impl, end in a failed assertion at
\* that call; nothing runs after a failed assertion; and in every state
\* without one no spawned job and no ready successor has been dropped.
C16_ExhaustionAsserts ==
  /\ [](~aborted => NoJobDropped)
  /\ [][ /\ ~aborted
         /\ \A t \in Workers :
              /\ (PushFails(t) /\ pc'[t] # "push") => FALSE
              /\ (PushFails(t) /\ Push(t)) => aborted'
              /\ (AllocateFails(t) /\ nspawned' # nspawned) => FALSE
              /\ (AllocateFails(t) /\ \E b \in BOOLEAN : FnSpawn(t, b)) => aborted'
       ]_vars

\* C16 witness: with two workers a spawn found the worker's deque full and
\* the assertion failed, the job not pushed.
C16_Witness ==
  /\ aborted /\ worker_amount = 2
  /\ \E t \in Workers :
       /\ PushFails(t) /\ loc[t].ret = "spawn"
       /\ pushed[IdOf(loc[t].job)] = 0

\* false waits of all workers, as recorded in the statistics
FalseWaits == SumTo(false_wait_amount, worker_amount - 1)
PushedJobs == Cardinality({id \in JobIds : pushed[id] >= 1})
\* a run is between run()'s store of Work and worker 0's store of Wait, and
\* no job has called spawn
RunWithoutSpawn == state = "Work" /\ job_graph # 0 /\ nspawned = 0

\* C17 as stated: in a run without spawned jobs the false waits of all
\* workers together do not exceed worker_amount.
C17_Original == RunWithoutSpawn => FalseWaits <= worker_amount

\* C17: every run returns; in a run of the empty graph and in a run with one
\* worker there is no false wait; and in a run whose jobs spawn nothing the
\* false waits of all workers together do not exceed worker_amount - 1 for
\* every successor pushed onto a deque so far.
C17_FalseWaitsBounded ==
  /\ [](RunWithoutSpawn => FalseWaits <= (worker_amount - 1) * PushedJobs)
  /\ (pc[0] = "run_notify") ~> (pc[0] = "main")

\* C17 witness: in a two-worker run of the chain of four nodes, without
\* spawned jobs, three false waits are recorded, one for each stolen
\* successor.
C17_Witness ==
  /\ RunWithoutSpawn /\ worker_amount = 2 /\ NodeCount(Graph) = 4
  /\ FalseWaits = 3 /\ PushedJobs = 3

\* the job has done the fetch_sub of job_completed in this run
Decremented(id) ==
  /\ finished[id] >= 1
  /\ ~\E t \in Workers : pc[t] = "job_completed" /\ IdOf(loc[t].cur) = id
\* the sub-jobs for which spawn_impl has called job_added on node n
Added(n) ==
  {id \in SubJobIds :
     /\ jobNode[id] = n
     /\ ~\E t \in Workers : pc[t] = "job_added" /\ IdOf(loc[t].job) = id}
\* the jobs of node n that have not yet done the fetch_sub of job_completed
Pending(n) ==
  (IF Decremented(n) THEN 0 ELSE 1)
    + Cardinality({id \in Added(n) : ~Decremented(id)})
\* t did the final decrement of node n and has not yet stored 1
BeforeReset(t, n) ==
  /\ pc[t] \in {"fire", "reset_unfinished"} \/ (InPush(t) /\ loc[t].ret = "fire")
  /\ NodeOf(loc[t].cur) = n

\* C18: as long as a job of a node has not done its decrement in
\* job_completed, the node's unfinished_amount is 1 for the root job, if that
\* has not done it, plus the number of such sub-jobs of the node, so it is
\* at least 1; once all have, it is 0 exactly while the one worker that did
\* the final decrement has not yet stored 1, and 1 after that.
C18_UnfinishedAccounting ==
  (~aborted /\ job_graph # 0) =>
    \A n \in NodeIds :
      LET u == unfinished_amount[job_graph][n]
          resetters == {t \in Workers : BeforeReset(t, n)}
      IN /\ Pending(n) > 0 => u = Pending(n) /\ resetters = {}
         /\ Pending(n) = 0 => u = (IF resetters = {} THEN 1 ELSE 0)
         /\ Cardinality(resetters) <= 1

\* C18 witness: with two workers, the root job of a node has done its
\* decrement while two sub-jobs of the node have not, one of them running,
\* and unfinished_amount is 2.
C18_Witness ==
  /\ ~aborted /\ job_graph # 0 /\ worker_amount = 2
  /\ \E n \in NodeIds :
       /\ Decremented(n) /\ unfinished_amount[job_graph][n] = 2
       /\ Cardinality(Added(n)) = 2
       /\ \E id \in Added(n) : started[id] = 1 /\ finished[id] = 0

\* C19: in each run, for every node, exactly one job_completed call sees the
\* old unfinished_amount 1, and it is the call of the last job of the node
\* to finish; the worker that made it fires the successors and restores the
\* two counters once; when run() returns every node has been fired and
\* restored once and every node with predecessors was pushed once.
C19_FiredOncePerRun ==
  (~aborted /\ job_graph # 0) =>
    \A n \in NodeIds :
      LET firing == {t \in Workers : Firing(t) /\ NodeOf(loc[t].cur) = n}
      IN /\ fired[n] <= 1 /\ restored[n] <= fired[n]
         /\ fired[n] = 1 <=> Pending(n) = 0
         /\ Cardinality(firing) = fired[n] - restored[n]
         /\ restored[n] = 1 =>
              /\ unfinished_amount[job_graph][n] = 1
              /\ predecessor_amount[job_graph][n] =
                   Graph.initial_predecessor_amount[n]
         /\ RunReturned =>
              /\ fired[n] = 1 /\ restored[n] = 1
              /\ pushed[n] = IF Graph.initial_predecessor_amount[n] > 0 THEN 1 ELSE 0

\* C19 witness: with two workers a node has two sub-jobs, and the worker
\* that saw the old value 1 and fires the successors is one that finished a
\* stolen sub-job of the node, not the root job.
C19_Witness ==
  /\ ~aborted /\ job_graph # 0 /\ worker_amount = 2
  /\ \E n \in NodeIds : \E t \in Workers :
       /\ pc[t] = "fire" /\ NodeOf(loc[t].cur) = n
       /\ IdOf(loc[t].cur) \in SubJobIds /\ loc[t].stolen
       /\ Len(Graph.successors[n]) > 0
       /\ fired[n] = 1 /\ restored[n] = 0
       /\ Cardinality(Added(n)) = 2

\* t has left its own-queue loop on a null pop, has done the fetch_add on
\* stealer_amount and no fetch_sub after a successful steal since
StealingPhase(t) ==
  pc[t] \in {"steal", "steal_bottom", "steal_slot", "steal_cas", "steal_check",
             "steal_publish", "active_dec", "sentinel", "sentinel_notify",
             "stealer_wait", "stealer_parked", "stealer_load", "active_inc"}

\* C20: whenever stealer_amount equals worker_amount every worker is in its
\* stealing phase and every deque is empty with top = bottom; a worker
\* comes to the decrement of active_amount only from the check after a
\* failed steal, with stealer_amount >= worker_amount at that check; and
\* active_amount is decremented by no other step.
C20_EveryoneStealing ==
  /\ []((~aborted /\ stealer_amount = worker_amount) =>
         \A t \in Workers :
           StealingPhase(t) /\ top[t] = bottom[t] /\ absq[t] = <<>>)
  /\ [][ /\ \A t \in Workers :
              /\ (pc[t] # "active_dec" /\ pc'[t] = "active_dec") =>
                   (pc[t] = "steal_check" /\ stealer_amount >= worker_amount)
              /\ (pc[t] # "steal_check" /\ pc'[t] = "steal_check") =>
                   (pc[t] \in {"steal_bottom", "steal_cas"} /\ taken' = taken)
         /\ (active_amount' = active_amount - 1) =>
              (\E u \in Workers :
                 pc[u] = "active_dec" /\ pc'[u] \in {"sentinel", "stealer_wait"})
       ]_vars

\* C20 witness: with two workers stealer_amount is 2 while one worker holds
\* a job it has stolen and not yet published, and the other worker, its
\* steal having failed, is about to decrement active_amount.
C20_Witness ==
  /\ ~aborted /\ worker_amount = 2 /\ stealer_amount = 2
  /\ \E t, u \in Workers :
       /\ pc[t] = "steal_publish" /\ loc[t].cur # NULL
       /\ pc[u] = "active_dec"
       /\ active_amount = 2

\* t is past the entry barrier of a run and seeds, pops, pushes, steals or
\* runs a job: it has not done the fetch_sub on active_amount since it last
\* counted itself in
Working(t) ==
  pc[t] \in {"barrier_in_wait", "seed", "function", "job_added", "push",
             "push_slot", "push_bottom", "job_completed", "fire",
             "reset_unfinished", "reset_predecessor", "pop", "pop_top",
             "pop_cas", "pop_restore", "steal_inc", "steal", "steal_bottom",
             "steal_slot", "steal_cas", "steal_check", "steal_publish",
             "steal_notify", "active_dec"}

\* C21: a thief whose steal succeeded does the fetch_sub on stealer_amount
\* before the stolen job's function starts and calls notify_all exactly
\* when the value before the decrement was worker_amount, which leaves no
\* worker parked on stealer_amount; a worker that leaves the wait with
\* stealer_amount <= worker_amount does the fetch_add on active_amount
\* before it steals again; and while any worker works, active_amount is the
\* number of workers that seed, pop, push, steal or run a job.
C21_ThiefPublishesAndRejoins ==
  /\ []((~aborted /\ \E t \in Workers : Working(t) /\ pc[t] # "barrier_in_wait") =>
         active_amount = Cardinality({t \in Workers : Working(t)}))
  /\ [][\A t \in Workers :
          /\ (pc[t] = "steal_publish" /\ pc'[t] # "steal_publish") =>
               /\ stealer_amount' = stealer_amount - 1
               /\ pc'[t] = (IF stealer_amount = worker_amount
                              THEN "steal_notify" ELSE "function")
          /\ (pc[t] = "steal_notify" /\ pc'[t] # "steal_notify") =>
               /\ pc'[t] = "function"
               /\ \A u \in Workers : pc'[u] # "stealer_parked"
          /\ (pc[t] # pc'[t] /\ started' # started /\ loc'[t].stolen) =>
               (pc[t] \in {"steal_publish", "steal_notify"} /\ pc'[t] = "function")
          /\ (pc[t] = "stealer_load" /\ pc'[t] # "stealer_load"
                /\ stealer_amount <= worker_amount) =>
               pc'[t] = "active_inc"
          /\ (pc[t] = "active_inc" /\ pc'[t] # "active_inc") =>
               (pc'[t] = "steal" /\ active_amount' = active_amount + 1)
          /\ (pc[t] # "steal" /\ pc'[t] = "steal") =>
               pc[t] \in {"steal_inc", "steal_check", "active_inc"}
       ]_vars

\* C21 witness: with two workers, one runs a job it has stolen, after its
\* fetch_sub from worker_amount and its notify_all, and the other, woken
\* by it from the wait, has counted itself in again and steals.
C21_Witness ==
  /\ ~aborted /\ worker_amount = 2 /\ active_amount = 2
  /\ \E t, u \in Workers :
       /\ pc[t] = "function" /\ loc[t].stolen
       /\ false_wait_amount[u] >= 1
       /\ pc[u] \in {"steal", "steal_bottom", "steal_slot", "steal_cas"}

\* t has passed the entry barrier of a run and the exit barrier of that run
\* has not completed
BetweenBarriers(t) ==
  \/ Working(t) /\ pc[t] # "barrier_in_wait"
  \/ StealingPhase(t)
  \/ pc[t] \in {"store_wait", "barrier_out"}
  \/ pc[t] = "barrier_in_wait" /\ t \notin sync_point
  \/ pc[t] = "barrier_out_wait" /\ t \in sync_point

InRun == \E t \in Workers : BetweenBarriers(t)

\* C22: between the entry barrier and the exit barrier of a run
\* stealer_amount is in 0..worker_amount + 1 and active_amount in
\* 0..worker_amount; while stealer_amount is not the sentinel
\* worker_amount + 1 it is the number of workers that did the
\* stealing-phase fetch_add and no fetch_sub after a steal since; and once
\* it is the sentinel no step of the run changes it.
C22_CounterAccounting ==
  /\ []((~aborted /\ InRun) =>
         /\ stealer_amount \in 0..(worker_amount + 1)
         /\ active_amount \in 0..worker_amount
         /\ stealer_amount # worker_amount + 1 =>
              stealer_amount = Cardinality({t \in Workers : StealingPhase(t)}))
  /\ [][(~aborted /\ InRun /\ stealer_amount = worker_amount + 1) =>
          stealer_amount' = stealer_amount]_vars

\* C22 witness: with two workers, both have been through the stealing
\* phase more than once in this run (one stole, the other waited falsely),
\* the sentinel is stored, and one worker has not yet left its wait.
C22_Witness ==
  /\ ~aborted /\ worker_amount = 2 /\ InRun
  /\ stealer_amount = worker_amount + 1 /\ active_amount = 0
  /\ \E t, u \in Workers :
       /\ stolen_job_amount[t] >= 1 /\ false_wait_amount[u] >= 1
       /\ pc[u] \in {"stealer_parked", "stealer_wait"}

\* the deque's three shared parts
Deque == <<top[0], bottom[0], ring_buffer[0]>>

\* C23: for one deque with thieves at work, push returns false exactly
\* when bottom minus the top it loaded is queue_capacity, and then top,
\* bottom and the ring buffer are as they were; otherwise it writes the job
\* to slot bottom % queue_capacity and nothing else, then adds exactly 1 to
\* bottom and returns true; bottom - top never exceeds queue_capacity; and
\* the slot a push writes holds no job that was pushed and not yet taken.
C23_PushSemantics ==
  /\ [](bottom[0] - top[0] <= queue_capacity)
  /\ [][ /\ (pc[0] = "push" /\ pc'[0] # "push") =>
             /\ Deque' = Deque
             /\ pc'[0] = (IF bottom[0] - top[0] = queue_capacity
                            THEN "q_idle" ELSE "push_slot")
             /\ (pc'[0] = "q_idle" => pushed' = pushed)
             /\ (pc'[0] = "push_slot" => loc'[0].lb = bottom[0])
         /\ (pc[0] = "push_slot" /\ pc'[0] # "push_slot") =>
             /\ pc'[0] = "push_bottom"
             /\ top' = top /\ bottom' = bottom /\ bottom[0] = loc[0].lb
             /\ ring_buffer'[0] =
                  [ring_buffer[0] EXCEPT ![bottom[0] % queue_capacity] = loc[0].job]
             /\ LET k == ring_buffer[0][bottom[0] % queue_capacity] IN
                  (k # NULL => (pushed[k] = 1 /\ taken[k] = 1))
         /\ (pc[0] = "push_bottom" /\ pc'[0] # "push_bottom") =>
             /\ pc'[0] = "q_idle"
             /\ bottom'[0] = bottom[0] + 1 /\ top' = top
             /\ ring_buffer' = ring_buffer
             /\ pushed'[loc[0].job] = pushed[loc[0].job] + 1
       ]_vars

\* C23 witness: the third push is about to write the slot of the first job,
\* which one thief has taken, while another thief still holds the value of
\* top it read before and is going to read that slot.
C23_Witness ==
  /\ pc[0] = "push_slot" /\ loc[0].job = 3
  /\ loc[0].lb = 2 /\ top[0] = 1 /\ taken[1] = 1
  /\ \E t \in Workers :
       /\ pc[t] \in {"steal_bottom", "steal_slot"}
       /\ loc[t].lt = 0

\* the owner of the deque is inside pop
InPop == pc[0] \in {"pop_top", "pop_cas", "pop_restore"}

\* C24: for one deque with thieves at work, a pop that returns null leaves
\* bottom where it was before the pop, with bottom >= top, and no step of
\* it changes top or a slot; a steal that returns null changes nothing of
\* the deque; bottom - top >= 0 whenever the owner is not inside pop; top
\* never exceeds bottom + 1; and top never decreases.
C24_FailedPopAndSteal ==
  /\ [](top[0] <= bottom[0] + 1 /\ (~InPop => bottom[0] >= top[0]))
  /\ [][ /\ top'[0] >= top[0]
         /\ (pc[0] # pc'[0] /\ (pc[0] = "pop" \/ InPop)) =>
              /\ ring_buffer' = ring_buffer
              /\ (top' # top => (pc[0] = "pop_cas" /\ loc'[0].job # NULL))
         /\ (pc[0] = "pop_restore" /\ pc'[0] = "q_idle" /\ loc[0].job = NULL) =>
              /\ bottom'[0] = loc[0].lb + 1 /\ bottom'[0] >= top'[0]
              /\ top' = top /\ taken' = taken
         /\ \A t \in Workers \ {0} :
              (pc[t] # pc'[t] /\ taken' = taken) => Deque' = Deque
       ]_vars

\* C24 witness: the only job pushed was taken by a thief and a pop of the
\* owner is about to return null, top being bottom + 1 until it has put
\* bottom back.
C24_Witness ==
  /\ pc[0] = "pop_restore" /\ loc[0].job = NULL
  /\ nspawned = 1 /\ pushed[1] = 1 /\ taken[1] = 1
  /\ top[0] = 1 /\ bottom[0] = 0

\* worker 0 is inside run(): the chunk allocator was reset before this run
\* and is not reset again until run() returns
InsideRun == pc[0] \notin {"main", "dtor_notify", "dtor_join", "destroyed"}

\* the addresses of the Job records of the chunk with index c - 1
ChunkAddrs(c) ==
  ((c - 1) * allocation_chunk_size + 1)..(c * allocation_chunk_size)

\* C25: inside a run every job spawned so far has a Job record of its own,
\* which no later allocate has handed out again; no two workers between
\* the barriers hold the same chunk; such a worker has handed out fewer than
\* allocation_chunk_size of its slots, each once; a record handed out was
\* not handed out before in the run; and allocate returns null exactly when
\* the worker holds no chunk and the index fetched from the chunk allocator
\* is >= the chunk count.
C25_AllocatedRecordsDistinct ==
  /\ []((~aborted /\ InsideRun) =>
         /\ \A id \in SpawnedIds :
              Cardinality({a \in Addrs : rec[a].id = id}) = 1
         /\ \A a \in Addrs : rec[a].id # 0 => rec[a].id \in SpawnedIds
         /\ \A t \in Workers :
              (BetweenBarriers(t) /\ chunk[t] # 0) =>
                /\ chunk[t] \in 1..chunk_amount
                /\ chunk[t] <= chunk_next_index
                /\ next_index[t] \in 1..(allocation_chunk_size - 1)
                /\ \A u \in Workers \ {t} :
                     BetweenBarriers(u) => chunk[u] # chunk[t]
                /\ \A i \in 1..allocation_chunk_size :
                     LET a == (chunk[t] - 1) * allocation_chunk_size + i IN
                       (rec[a].id # 0) <=> (i <= next_index[t]))
  /\ [][ /\ \A a \in Addrs :
              (rec'[a] # rec[a] /\ rec'[a].id # 0) =>
                (rec[a].id = 0 /\ rec'[a].id = MaxNodes + nspawned')
         /\ \A t \in Workers :
              (~aborted /\ \E b \in BOOLEAN : FnSpawn(t, b)) =>
                /\ aborted' <=>
                     (chunk[t] = 0 /\ chunk_next_index >= chunk_amount)
                /\ aborted' => (rec' = rec /\ nspawned' = nspawned)
                /\ ~aborted' =>
                     \E a \in ChunkAddrs(IF chunk[t] = 0 THEN chunk_next_index + 1
                                                          ELSE chunk[t]) :
                       /\ loc'[t].job = RecJob(a)
                       /\ rec'[a].id = MaxNodes + nspawned'
       ]_vars

\* C25 witness: two workers have each taken a chunk of their own, worker 0
\* has handed out both slots of the first and worker 1 one slot of the
\* second, three distinct records in all.
C25_Witness ==
  /\ ~aborted /\ InsideRun /\ worker_amount = 2
  /\ chunk_next_index = 2 /\ nspawned = 3
  /\ chunk[0] = 0 /\ next_index[0] = allocation_chunk_size
  /\ chunk[1] # 0 /\ next_index[1] = 1
  /\ Cardinality({rec[a].id : a \in Addrs} \ {0}) = 3

InPopCall(t) == pc[t] \in {"pop", "pop_top", "pop_cas", "pop_restore"}
InStealCall(t) == pc[t] \in {"steal_bottom", "steal_slot", "steal_cas"}

\* C26: during a run a worker that is in push or pop is on its own deque,
\* whether the job it runs came from a root list, from its own deque or was
\* stolen, and whether the push is of a spawned job or of a fired
\* successor's root job; a deque's bottom and slots are written by steps of
\* its own worker only; and the victim of a steal is a worker index in
\* 0..worker_amount - 1 that, with two workers or more, is not the thief's.
C26_DequeAccessDiscipline ==
  /\ [](\A t \in Workers :
          /\ (InPush(t) \/ InPopCall(t)) => loc[t].q = t
          /\ InStealCall(t) =>
               /\ loc[t].q \in 0..(worker_amount - 1)
               /\ worker_amount >= 2 => loc[t].q # t)
  /\ [][\A q \in Workers :
          (bottom'[q] # bottom[q] \/ ring_buffer'[q] # ring_buffer[q]) =>
            pc'[q] # pc[q]]_vars

\* C26 witness: with two workers, worker 1 finished a stolen job as the
\* last job of its node and pushes the successor's root job, onto its own
\* deque.
C26_Witness ==
  /\ ~aborted /\ worker_amount = 2
  /\ pc[1] = "push_bottom" /\ loc[1].stolen /\ loc[1].ret = "fire"
  /\ loc[1].q = 1 /\ IsRoot(loc[1].job)

\* the root list of g
Roots(g) == {g.root_nodes[i] : i \in 1..Len(g.root_nodes)}

\* The graph built by new_node calls is well formed.
WellFormed(g) ==
  \A n \in 1..NodeCount(g) :
    /\ ~Reachable(g, n, n)
    /\ g.initial_predecessor_amount[n] = EdgesTo(g, n, NodeCount(g))
    /\ Count(g.root_nodes, n) =
         (IF g.initial_predecessor_amount[n] = 0 THEN 1 ELSE 0)
    /\ n \in Roots(g) \/ \E r \in Roots(g) : Reachable(g, r, n)

\* C27: after any sequence of new_node calls the successor relation is
\* acyclic, initial_predecessor_amount of every node is the number of its
\* occurrences in successor lists, which is >= 1 for a node created from a
\* predecessor list (duplicates in the list included) and 0 for a node of
\* the root list, where it is once; every node is in the root list or
\* reachable from a node of it; and a run of the graph executes the root job
\* of every node, once.
C27_GraphWellFormed ==
  /\ WellFormed(graphs[1])
  /\ (pc[0] = "g_build" /\ loc[0].predecessors # <<>>) =>
       graphs[1].initial_predecessor_amount[NodeCount(graphs[1])] >= 1
  /\ (RunReturned /\ job_graph = 1) =>
       \A n \in NodeIds : started[n] = 1 /\ finished[n] = 1

\* C27 witness: the second node was created with its predecessor listed
\* twice, the third from a list with a redundant node and a duplicate, and a
\* run of the graph has returned.
C27_Witness ==
  /\ RunReturned /\ job_graph = 1
  /\ graphs[1] =
       new_node(new_node(new_root_node(EmptyGraph), <<1, 1>>), <<1, 2, 2>>)
  /\ graphs[1].successors = << <<2, 2>>, <<3, 3>>, <<>> >>
  /\ finished[3] = 1

\* t is inside run_worker before its entry barrier has completed
AtEntry(t) ==
  \/ pc[t] = "barrier_in"
  \/ pc[t] = "barrier_in_wait" /\ t \in sync_point

\* worker 0 is inside run() and its run_worker has not passed the entry
\* barrier
RunEntering ==
  \/ pc[0] \in {"run_notify", "run_stealer", "run_active"}
  \/ AtEntry(0)

\* the caller is outside run(): before a run, after one, or in the destructor
OutsideRun == pc[0] \in {"main", "dtor_notify", "dtor_join", "destroyed"}

\* C28: for every call to run() each worker executes run_worker exactly
\* once: no worker calls it twice in a run, every worker has called it when
\* the entry barrier has completed and when run() has returned, and no
\* worker is in a run while the caller is outside run().  A worker thread
\* leaves state.wait only when state is Work or Quit, and calls run_worker
\* only while state is Work and worker 0 has not passed the entry barrier
\* of the run.  Once the destructor has stored Quit no worker calls
\* run_worker, and every worker thread leaves its loop.
C28_RunLifecycle ==
  /\ [](~aborted =>
         /\ \A t \in Workers : entered[t] <= 1
         /\ InRun => \A t \in Workers : entered[t] = 1
         /\ (OutsideRun \/ pc[0] = "run_chunk_reset") =>
              /\ (entered[0] = 1 => \A t \in Workers : entered[t] = 1)
              /\ \A t \in Workers \ {0} : ~AtEntry(t) /\ ~BetweenBarriers(t)
         /\ \A t \in Workers \ {0} : pc[t] = "state_load" => state # "Wait"
         /\ state = "Quit" => OutsideRun /\ pc[0] # "main")
  /\ [][ /\ \A t \in Workers \ {0} :
              (pc[t] \in {"state_wait", "state_parked"} /\ pc'[t] = "state_load")
                => state \in {"Work", "Quit"}
         /\ \A t \in Workers \ {0} :
              (pc[t] # "barrier_in" /\ pc'[t] = "barrier_in")
                => (/\ pc[t] = "state_load"
                    /\ state = "Work"
                    /\ RunEntering
                    /\ entered[t] = 0 /\ entered'[t] = 1)
         /\ (pc[0] # "barrier_in" /\ pc'[0] = "barrier_in")
              => (pc[0] = "run_active" /\ entered[0] = 0 /\ entered'[0] = 1)
         /\ state = "Quit" =>
              (/\ entered' = entered
               /\ state' = "Quit"
               /\ \A t \in Workers \ {0} :
                    pc'[t] # pc[t] =>
                      pc'[t] \in {"state_wait", "state_load", "exited",
                                  "reset_bottom", "reset_top"})
       ]_vars
  /\ (state = "Quit") ~> (\A t \in Workers \ {0} : pc[t] = "exited")

\* C28 witness: both workers have executed run_worker in the run that
\* returned, and the destructor has stored Quit while worker 1 is still
\* returning from run_worker.
C28_Witness ==
  /\ ~aborted /\ worker_amount = 2
  /\ state = "Quit"
  /\ entered[0] = 1 /\ entered[1] = 1
  /\ pc[1] \in {"reset_bottom", "reset_top"}

====
